---- MODULE Spec2Model ----
(***************************************************************************)
(* A state-machine model of the bzip2 command-line driver (src/bzip2.rs):  *)
(* the per-file jobs compress / uncompress / testf, the stream drivers     *)
(* compressStream / uncompressStream / testStream, the process-wide        *)
(* interrupt state and the cleanup path cleanUpAndFail.                    *)
(*                                                                         *)
(* File names are sequences of one-character strings.  File contents are   *)
(* sequences of tokens at transfer-chunk granularity: one "raw" token is   *)
(* one chunk (up to 5000 bytes) of plain data, a "member" token is one     *)
(* complete compressed member whose field v lists the chunks it decodes    *)
(* to, "corrupt" is a member failing its CRC, "trunc" a member cut short.  *)
(* The codec engine (libbzip2_rs_sys) is not part of src/; its sessions    *)
(* are modelled from the adapter contract of the specification.            *)
(***************************************************************************)
EXTENDS Integers, Sequences, FiniteSets, TLC

(***************************************************************************)
(* Bounds of the model.                                                    *)
(***************************************************************************)
\* Longest input file the environment hands to a decompress/test job, in tokens.
MaxTokens == 3
\* Most data chunks held by one input file.
MaxChunks == 2
\* Tokens the codec session buffers per fill of its input buffer
\* (the member boundary may fall inside the buffer: the rest is "unused").
BufTokens == 2

(***************************************************************************)
(* Program constants.                                                      *)
(***************************************************************************)
FILE_NAME_LEN == 1034

NUL == "NUL"

Z_SUFFIX == << <<".", "b", "z", "2">>, <<".", "b", "z">>,
               <<".", "t", "b", "z", "2">>, <<".", "t", "b", "z">> >>
UNZ_SUFFIX == << <<>>, <<>>, <<".", "t", "a", "r">>, <<".", "t", "a", "r">> >>

NONE_NAME == <<"(", "n", "o", "n", "e", ")">>
STDIN_NAME == <<"(", "s", "t", "d", "i", "n", ")">>
STDOUT_NAME == <<"(", "s", "t", "d", "o", "u", "t", ")">>
DOT_BZ2 == <<".", "b", "z", "2">>
DOT_OUT == <<".", "o", "u", "t">>

\* libbzip2 status codes, by name.
BZ_OK == "BZ_OK"
BZ_STREAM_END == "BZ_STREAM_END"
BZ_DATA_ERROR_MAGIC == "BZ_DATA_ERROR_MAGIC"
BZ_DATA_ERROR == "BZ_DATA_ERROR"
BZ_UNEXPECTED_EOF == "BZ_UNEXPECTED_EOF"
BZ_IO_ERROR == "BZ_IO_ERROR"
BZ_MEM_ERROR == "BZ_MEM_ERROR"
BZ_CONFIG_ERROR == "BZ_CONFIG_ERROR"
BZ_PARAM_ERROR == "BZ_PARAM_ERROR"

(***************************************************************************)
(* Strings and paths.                                                      *)
(***************************************************************************)
MaxOf(a, b) == IF a >= b THEN a ELSE b

\* str::ends_with
EndsWith(s, suf) ==
    /\ Len(suf) <= Len(s)
    /\ SubSeq(s, Len(s) - Len(suf) + 1, Len(s)) = suf

\* Index of the last "." of s, 0 when there is none.
LastDot(s) ==
    LET dots == {i \in 1..Len(s) : s[i] = "."}
    IN IF dots = {} THEN 0 ELSE CHOOSE i \in dots : \A j \in dots : j <= i

\* Path::extension of a path without directory part: the text after the last
\* ".", none when there is no "." or the only "." starts the name.
HasExtension(s) == LastDot(s) > 1
Extension(s) == SubSeq(s, LastDot(s) + 1, Len(s))

\* The known compressed-format extensions, &bz2_extension[1..] of Z_SUFFIX.
ZExtensions == {Tail(Z_SUFFIX[i]) : i \in 1..Len(Z_SUFFIX)}

\* compress, lines 1199-1214: the input already carries a known suffix.
AlreadyHasSuffix(name) == HasExtension(name) /\ Extension(name) \in ZExtensions

\* Config::with_compress_input, F2F: output = name + ".bz2".
CompressOutputName(name) == name \o DOT_BZ2

\* Config::with_uncompress_input, F2F: the first suffix of Z_SUFFIX the name
\* ends with is replaced by its pair; ".out" is appended when none matches.
MatchingSuffixes(name) == {i \in 1..Len(Z_SUFFIX) : EndsWith(name, Z_SUFFIX[i])}
UncompressOutputName(name) ==
    IF MatchingSuffixes(name) = {}
    THEN name \o DOT_OUT
    ELSE LET i == CHOOSE k \in MatchingSuffixes(name) :
                      \A j \in MatchingSuffixes(name) : k <= j
         IN SubSeq(name, 1, Len(name) - Len(Z_SUFFIX[i])) \o UNZ_SUFFIX[i]

\* uncompress, line 1410.
CannotGuess(output) == HasExtension(output) /\ Extension(output) = Tail(DOT_OUT)

(***************************************************************************)
(* The fixed-size name buffers inName / outName.  A buffer is the sequence *)
(* of its bytes up to the last non-NUL one: the statics start zeroed, so   *)
(* every byte past the sequence is NUL.                                    *)
(***************************************************************************)
BufAt(buf, i) == IF i + 1 <= Len(buf) THEN buf[i + 1] ELSE NUL

RECURSIVE TrimNul(_)
TrimNul(b) ==
    IF b = <<>> THEN b
    ELSE IF b[Len(b)] = NUL THEN TrimNul(SubSeq(b, 1, Len(b) - 1)) ELSE b

\* A length check against the size of the buffer itself.
NameTooLong_Lax(from) == Len(from) > FILE_NAME_LEN

\* copy_filename fails for names longer than FILE_NAME_LEN - 10.
NameTooLong(from) == Len(from) > FILE_NAME_LEN - 10

\* copy_filename, lines 1024-1028: from.len() bytes are copied, byte
\* from.len() + 1 and byte FILE_NAME_LEN - 10 are set to NUL; byte from.len()
\* itself is left as it was.
copy_filename(to, from) ==
    LET n == Len(from)
        byte(i) == IF i < n THEN from[i + 1]
                   ELSE IF i = n + 1 THEN NUL
                   ELSE IF i = FILE_NAME_LEN - 10 THEN NUL
                   ELSE BufAt(to, i)
    IN TrimNul([i \in 1..MaxOf(Len(to), n + 2) |-> byte(i - 1)])

\* The highest index copy_filename writes to: from.len() + 1 or
\* FILE_NAME_LEN - 10, whichever is larger.
HighestWrite(from) == MaxOf(Len(from) + 1, FILE_NAME_LEN - 10)

\* The C string held by a buffer: its bytes up to the first NUL.
CStr(buf) ==
    LET nuls == {i \in 1..Len(buf) : buf[i] = NUL}
    IN IF nuls = {} THEN buf
       ELSE SubSeq(buf, 1, (CHOOSE i \in nuls : \A j \in nuls : i <= j) - 1)

(***************************************************************************)
(* File contents and the file system.                                      *)
(***************************************************************************)
Raw(i) == [k |-> "raw", v |-> <<i>>]
Member(v) == [k |-> "member", v |-> v]
Corrupt == [k |-> "corrupt", v |-> <<>>]
Trunc(v) == [k |-> "trunc", v |-> v]
\* A chunk of bytes that is not the start of a member.
Junk == Raw(0)

RECURSIVE SumTo(_, _)
SumTo(s, n) == IF n = 0 THEN 0 ELSE s[n] + SumTo(s, n - 1)

\* The payload sizes of the members of a container: the first member holds
\* up to MaxChunks chunks, every later member one chunk.
Shapes ==
    {<<>>} \cup
    {[i \in 1..k |-> IF i = 1 THEN c ELSE 1] : k \in 1..MaxTokens, c \in 0..MaxChunks}

\* The members of a shape; every chunk of the file is numbered in order.
MembersOf(s) ==
    [i \in 1..Len(s) |-> Member([j \in 1..s[i] |-> SumTo(s, i - 1) + j])]

\* Input files of decompress and test: at most MaxTokens tokens, which are
\* members, then the end of the file, a chunk of junk, a corrupt member or a
\* truncated member.
Containers ==
    {MembersOf(s) : s \in Shapes}
    \cup {MembersOf(s) \o <<stop>> :
            s \in {t \in Shapes : Len(t) < MaxTokens},
            stop \in {Junk, Corrupt, Trunc(<<>>)}}

\* Input files of compress: plain chunks.
RawFiles == {[i \in 1..k |-> Raw(i)] : k \in 0..MaxChunks}

\* The chunks a sequence of plain tokens holds.
RECURSIVE ChunksOf(_)
ChunksOf(data) == IF data = <<>> THEN <<>> ELSE data[1].v \o ChunksOf(Tail(data))

\* The plain data a payload decodes to.
Decoded(v) == [i \in 1..Len(v) |-> Raw(v[i])]

\* Permission bits, as the set of rights the owner holds.
RW == {"r", "w"}
RO == {"r"}
NOPERM == {}

Absent == [kind |-> "absent", data |-> <<>>, bound |-> TRUE,
           mode |-> NOPERM, mtime |-> "none", nlink |-> 0]
RegularFile(data, mode, mtime, nlink, bound) ==
    [kind |-> "file", data |-> data, bound |-> bound,
     mode |-> mode, mtime |-> mtime, nlink |-> nlink]

\* What the environment may hold under an input path when a job first looks.
InputProfiles ==
    {Absent,
     [Absent EXCEPT !.kind = "dir", !.mode = RW, !.mtime = "old"],
     [Absent EXCEPT !.kind = "other", !.mode = RW, !.mtime = "old", !.bound = FALSE],
     RegularFile(<<>>, RW, "old", 0, FALSE),
     RegularFile(<<>>, RO, "old", 0, FALSE),
     RegularFile(<<>>, NOPERM, "old", 0, FALSE),
     RegularFile(<<>>, RW, "old", 1, FALSE)}
\* What may already exist under an output path.
OutputProfiles == {Absent, RegularFile(<<Junk>>, RW, "old", 0, TRUE)}
\* Standard input and output: a terminal or a pipe.
StdinProfiles ==
    {[Absent EXCEPT !.kind = "tty"], [Absent EXCEPT !.kind = "pipe", !.bound = FALSE]}
StdoutProfiles ==
    {[Absent EXCEPT !.kind = "tty"], [Absent EXCEPT !.kind = "pipe"]}

\* Pseudo-paths of the standard streams (no file argument can equal them).
STDIN_F == <<"<stdin>">>
STDOUT_F == <<"<stdout>">>

Put(f, p, r) == [q \in DOMAIN f \cup {p} |-> IF q = p THEN r ELSE f[q]]
Lookup(f, p) == IF p \in DOMAIN f THEN f[p] ELSE Absent
\* Path::exists / stat() == 0
Exists(f, p) == Lookup(f, p).kind # "absent"
\* remove() / std::fs::remove_file
Unlink(f, p) == IF p \in DOMAIN f THEN Put(f, p, Absent) ELSE f

(***************************************************************************)
(* File arguments of the runs explored.                                    *)
(***************************************************************************)
N_a == <<"a">>
N_abcdef == <<"a", "b", "c", "d", "e", "f">>
N_a_bz2 == N_a \o DOT_BZ2
N_abcdef_bz2 == N_abcdef \o DOT_BZ2
N_dot_bz2 == DOT_BZ2
N_a_out_bz2 == N_a \o DOT_OUT \o DOT_BZ2
\* The longest name copy_filename accepts, and the shortest it rejects.
N_max == [i \in 1..(FILE_NAME_LEN - 10) |-> "x"]
N_long == [i \in 1..(FILE_NAME_LEN - 9) |-> "x"]

ArgLists(op) ==
    IF op = "Zip"
    THEN {<<>>, <<N_a>>, <<N_abcdef>>, <<N_a_bz2>>, <<N_dot_bz2>>,
          <<N_a_bz2, N_abcdef>>, <<N_long>>}
    ELSE {<<>>, <<N_a_bz2>>, <<N_abcdef_bz2>>, <<N_abcdef>>,
          <<N_a_bz2, N_abcdef_bz2>>, <<N_abcdef_bz2, N_abcdef_bz2>>,
          <<N_max>>, <<N_a_out_bz2>>}

(***************************************************************************)
(* State.                                                                  *)
(***************************************************************************)
VARIABLES
    opMode,                     \* OperationMode: "Zip", "Unzip", "Test"
    srcMode,                    \* SourceMode: "I2O", "F2O", "F2F"
    args,                       \* the file arguments, in order
    config,                     \* Config: input, output, force_overwrite, keep_input_files
    delete_output_on_interrupt, \* the deletable flag
    numFilesProcessed,
    exitValue,
    inName, outName,            \* the global name buffers
    outputHandleJustInCase,     \* "NULL" or "outStr"
    pc,                         \* position of the main flow
    argIdx,                     \* file arguments taken so far by the job loop
    all_ok,                     \* main_0's all_ok
    job,                        \* locals of the running job and stream driver
    fs,                         \* the file system, as far as observed
    exitCode,                   \* the code the process exited with, -1 before
    hist                        \* history of the run (not program state)

vars == <<opMode, srcMode, args, config, delete_output_on_interrupt,
          numFilesProcessed, exitValue, inName, outName,
          outputHandleJustInCase, pc, argIdx, all_ok, job, fs, exitCode, hist>>

modeVars == <<opMode, srcMode, args>>
nameVars == <<inName, outName>>

numFileNames == Len(args)

NullFile == [st |-> "null", path |-> <<>>, pos |-> 0, data |-> <<>>]
NullSession == [st |-> "null", buf |-> <<>>, cur |-> <<>>, mid |-> FALSE, wr |-> <<>>]

\* The locals of compress/uncompress/testf and of the stream drivers.
FreshJob ==
    [metadata |-> [has |-> FALSE, mode |-> NOPERM, mtime |-> "none"],
     inStr |-> NullFile,        \* the input handle (input_stream / inStr / zStream)
     outStr |-> NullFile,       \* the output handle (outStr / output_stream)
     bzf |-> NullSession,
     bzerr |-> BZ_OK,
     streamNo |-> 0,
     unused |-> <<>>,           \* unused[0..nUnused]
     ret |-> TRUE]              \* magicNumberOK / allOK

NoInput == [path |-> <<>>, data |-> <<>>, mode |-> NOPERM, mtime |-> "none"]

FreshHist ==
    [recorded |-> {},           \* every code passed to setExit so far
     exitFrom |-> "none",       \* pc at which the process ended
     exitCause |-> "none",      \* "return", "exit", "fatal", "sigterm", "sigsegv", "killed"
     outcome |-> "none",        \* how the last job ended
     outcomes |-> {},           \* how the jobs that returned have ended
     created |-> FALSE,         \* the running job created its output file
     fsAtStart |-> [x \in {} |-> Absent],  \* the file system when the job began
     rewound |-> FALSE,         \* the job rewound its input
     magic |-> 0,               \* streamNo at which the job met bad magic
     input |-> NoInput,         \* the input as the job opened it
     phase |-> 1,               \* 2 once the program has been run again
     orig |-> NoInput,          \* the input of the first run's job
     ran |-> 0,                 \* jobs started
     perms |-> FALSE,           \* the job applied the saved permissions
     times |-> FALSE,           \* the job applied the saved timestamps
     removed |-> FALSE,         \* the job removed its input
     topByte |-> HighestWrite(NONE_NAME)]  \* highest name-buffer index written

Init ==
    /\ opMode \in {"Zip", "Unzip", "Test"}
    /\ args \in ArgLists(opMode)
    /\ srcMode \in (IF args = <<>> THEN {"I2O"}
                    ELSE IF opMode = "Test" THEN {"F2F"} ELSE {"F2F", "F2O"})
    /\ config \in [input : {NONE_NAME}, output : {NONE_NAME},
                   force_overwrite : BOOLEAN, keep_input_files : BOOLEAN]
    /\ (Len(args) > 1 \/ args = <<N_a_out_bz2>>) =>
          srcMode = "F2F" /\ ~config.force_overwrite /\ ~config.keep_input_files
    /\ delete_output_on_interrupt = FALSE
    /\ numFilesProcessed = 0
    /\ exitValue = 0
    /\ inName = copy_filename(<<>>, NONE_NAME)
    /\ outName = copy_filename(<<>>, NONE_NAME)
    /\ outputHandleJustInCase = "NULL"
    /\ pc = "main"
    /\ argIdx = 0
    /\ all_ok = TRUE
    /\ job = FreshJob
    /\ fs = [x \in {} |-> Absent]
    /\ exitCode = -1
    /\ hist = FreshHist

(***************************************************************************)
(* Shared steps: exit codes, leaving the process, returning from a job.    *)
(***************************************************************************)
\* A plain store in place of fetch_max.
setExit_Store(v) == v

\* setExit, lines 721-723: exitValue.fetch_max(v).
setExit(v) == IF v > exitValue THEN v ELSE exitValue

Running == pc \notin {"exited", "killed"}

\* The paths a job works on.
InputPath == IF srcMode = "I2O" THEN STDIN_F ELSE config.input
OutputPath == IF srcMode = "F2F" THEN config.output ELSE STDOUT_F
\* The path handed to fopen(inName) by uncompress and testf.
FopenPath == IF srcMode = "I2O" THEN STDIN_F ELSE CStr(inName)

\* A step of a job that stays inside the job.
Goto(newpc, newjob, newfs, flag, jic, newhist) ==
    /\ pc' = newpc
    /\ job' = newjob
    /\ fs' = newfs
    /\ delete_output_on_interrupt' = flag
    /\ outputHandleJustInCase' = jic
    /\ hist' = newhist
    /\ UNCHANGED <<modeVars, config, numFilesProcessed, exitValue, nameVars,
                   argIdx, all_ok, exitCode>>

\* A step that only moves on, possibly changing the job's locals and files.
Step(newpc, newjob, newfs) ==
    Goto(newpc, newjob, newfs, delete_output_on_interrupt,
         outputHandleJustInCase, hist)

\* What outlives the frame of a job: the handles and the session it holds.
Residue(j) ==
    [FreshJob EXCEPT !.inStr.st = j.inStr.st, !.inStr.path = j.inStr.path,
                     !.outStr.st = j.outStr.st, !.outStr.path = j.outStr.path,
                     !.bzf.st = j.bzf.st]

\* compress / uncompress / testf return to main_0's job loop; code is the
\* value passed to setExit on the way (0: setExit is not called).
ReturnH(result, outcome, code, newjob, newfs, flag, h) ==
    /\ pc' = "main"
    /\ job' = Residue(newjob)
    /\ fs' = newfs
    /\ all_ok' = (all_ok /\ result)
    /\ exitValue' = IF code > 0 THEN setExit(code) ELSE exitValue
    /\ delete_output_on_interrupt' = flag
    /\ hist' = [h EXCEPT !.outcome = outcome,
                         !.outcomes = @ \cup {outcome},
                         !.recorded = IF code > 0 THEN @ \cup {code} ELSE @]
    /\ UNCHANGED <<modeVars, config, numFilesProcessed, nameVars,
                   outputHandleJustInCase, argIdx, exitCode>>

Return(result, outcome, code, newjob, newfs, flag) ==
    ReturnH(result, outcome, code, newjob, newfs, flag, hist)

\* setExit(ec); exit(exitValue) with nothing else done.
ExitWith(ec, cause, newjob, newfs) ==
    /\ pc' = "exited"
    /\ job' = newjob
    /\ fs' = newfs
    /\ exitValue' = setExit(ec)
    /\ exitCode' = setExit(ec)
    /\ hist' = [hist EXCEPT !.exitFrom = pc, !.exitCause = cause,
                            !.recorded = IF ec > 0 THEN @ \cup {ec} ELSE @]
    /\ UNCHANGED <<modeVars, config, delete_output_on_interrupt,
                   numFilesProcessed, nameVars, outputHandleJustInCase,
                   argIdx, all_ok>>

\* cleanUpAndFail, lines 749-812, entered with the files fsNow and the
\* locals jobNow: in file-to-file compress/decompress with the deletable flag
\* set, stat(inName); when it succeeds close the just-in-case handle and
\* remove(outName); then setExit(ec); exit(exitValue).  The fclose of a handle
\* the job has closed already leaves it "closed_twice".
CleanupEligible ==
    srcMode = "F2F" /\ opMode # "Test" /\ delete_output_on_interrupt
cleanUpAndFail(ec, cause, jobNow, fsNow) ==
    LET deleting == CleanupEligible /\ Exists(fsNow, CStr(inName))
    IN ExitWith(ec, cause,
                IF deleting /\ outputHandleJustInCase # "NULL"
                THEN [jobNow EXCEPT !.outStr.st =
                         IF @ = "closed" THEN "closed_twice" ELSE "closed"]
                ELSE jobNow,
                IF deleting THEN Unlink(fsNow, CStr(outName)) ELSE fsNow)

\* ioError / exit_with_io_error / outOfMemory: cleanUpAndFail(1).
ioError(jobNow, fsNow) == cleanUpAndFail(1, "fatal", jobNow, fsNow)
\* panic_str: cleanUpAndFail(3).
panic_str(jobNow, fsNow) == cleanUpAndFail(3, "fatal", jobNow, fsNow)
\* crcError / compressedStreamEOF: cleanUpAndFail(2).
crcError(jobNow, fsNow) == cleanUpAndFail(2, "fatal", jobNow, fsNow)
\* configError, lines 982-993: setExit(3); exit(exitValue), no cleanup.
configError(jobNow, fsNow) == ExitWith(3, "fatal", jobNow, fsNow)

\* The fatal diagnostic both error handlers of the compress driver and the
\* decompress driver select for a resource status.
FatalByStatus(status, jobNow, fsNow) ==
    CASE status = BZ_CONFIG_ERROR -> configError(jobNow, fsNow)
      [] status = BZ_MEM_ERROR -> ioError(jobNow, fsNow)
      [] status = BZ_IO_ERROR -> ioError(jobNow, fsNow)
      [] OTHER -> panic_str(jobNow, fsNow)

(***************************************************************************)
(* main_0, lines 2031-2103: the job loop.                                  *)
(***************************************************************************)
\* Config::with_input before the two copy_filename calls.
with_input(name) ==
    [config EXCEPT
        !.input = IF srcMode = "I2O" THEN STDIN_NAME ELSE name,
        !.output = IF opMode = "Test" THEN NONE_NAME
                   ELSE IF srcMode # "F2F" THEN STDOUT_NAME
                   ELSE IF opMode = "Zip" THEN CompressOutputName(name)
                   ELSE UncompressOutputName(name)]

MoreJobs ==
    IF srcMode = "I2O" THEN hist.ran = 0 ELSE argIdx < Len(args)

\* A job loop that counts the standard-input job as a file.
MainNextJob_CountingStdin ==
    /\ pc = "main"
    /\ MoreJobs
    /\ pc' = "copy_in"
    /\ argIdx' = IF srcMode = "I2O" THEN argIdx ELSE argIdx + 1
    /\ numFilesProcessed' = numFilesProcessed + 1
    /\ config' = with_input(IF srcMode = "I2O" THEN <<>> ELSE args[argIdx + 1])
    /\ job' = FreshJob
    /\ hist' = [hist EXCEPT !.ran = @ + 1, !.outcome = "running",
                            !.created = FALSE, !.rewound = FALSE,
                            !.magic = 0, !.input = NoInput,
                            !.perms = FALSE, !.times = FALSE,
                            !.removed = FALSE]
    /\ UNCHANGED <<modeVars, delete_output_on_interrupt, exitValue, nameVars,
                   outputHandleJustInCase, all_ok, fs, exitCode>>

\* numFilesProcessed.fetch_add(1) and the with_*_input part of with_input.
MainNextJob ==
    /\ pc = "main"
    /\ MoreJobs
    /\ pc' = "copy_in"
    /\ argIdx' = IF srcMode = "I2O" THEN argIdx ELSE argIdx + 1
    /\ numFilesProcessed' =
          IF srcMode = "I2O" THEN numFilesProcessed ELSE numFilesProcessed + 1
    /\ config' = with_input(IF srcMode = "I2O" THEN <<>> ELSE args[argIdx + 1])
    /\ job' = FreshJob
    /\ hist' = [hist EXCEPT !.ran = @ + 1, !.outcome = "running",
                            !.created = FALSE, !.rewound = FALSE,
                            !.magic = 0, !.input = NoInput,
                            !.perms = FALSE, !.times = FALSE,
                            !.removed = FALSE]
    /\ UNCHANGED <<modeVars, delete_output_on_interrupt, exitValue, nameVars,
                   outputHandleJustInCase, all_ok, fs, exitCode>>

\* with_input, line 116: copy_filename(inName, input).
CopyInName ==
    /\ pc = "copy_in"
    /\ IF NameTooLong(config.input)
       THEN ExitWith(1, "exit", job, fs)
       ELSE /\ inName' = copy_filename(inName, config.input)
            /\ pc' = "copy_out"
            /\ hist' = [hist EXCEPT
                           !.topByte = MaxOf(@, HighestWrite(config.input))]
            /\ UNCHANGED <<modeVars, config, delete_output_on_interrupt,
                           numFilesProcessed, exitValue, outName,
                           outputHandleJustInCase, argIdx, all_ok, job, fs,
                           exitCode>>

JobEntry == CASE opMode = "Zip" -> "c_pre"
              [] opMode = "Unzip" -> "u_pre"
              [] OTHER -> "t_pre"

\* with_input, line 117: copy_filename(outName, output); then the job starts.
CopyOutName ==
    /\ pc = "copy_out"
    /\ IF NameTooLong(config.output)
       THEN ExitWith(1, "exit", job, fs)
       ELSE /\ outName' = copy_filename(outName, config.output)
            /\ pc' = JobEntry
            /\ hist' = [hist EXCEPT
                           !.topByte = MaxOf(@, HighestWrite(config.output))]
            /\ UNCHANGED <<modeVars, config, delete_output_on_interrupt,
                           numFilesProcessed, exitValue, inName,
                           outputHandleJustInCase, argIdx, all_ok, job, fs,
                           exitCode>>

\* Lines 2066-2069, 2089-2099 and 2103: after the last job, decompress and
\* test exit through setExit(2) when some job returned false; otherwise
\* main_0 returns exitValue, which main passes to process::exit.
MainFinish ==
    /\ pc = "main"
    /\ ~MoreJobs
    /\ IF opMode # "Zip" /\ ~all_ok
       THEN ExitWith(2, "exit", job, fs)
       ELSE ExitWith(0, "return", job, fs)

(***************************************************************************)
(* The environment: what a job finds when it first looks at a path, and    *)
(* other processes unlinking the input while the job runs.                 *)
(***************************************************************************)
AtJobEntry == pc \in {"c_pre", "u_pre", "t_pre"}
HasOutput == opMode # "Test"
\* uncompress and testf open the input through fopen(inName) (lines 1549 and
\* 1690): the name held in the buffer is a path of the file system as well.
Observed ==
    /\ InputPath \in DOMAIN fs
    /\ opMode # "Zip" => FopenPath \in DOMAIN fs
    /\ HasOutput => OutputPath \in DOMAIN fs

EnvObserveInput ==
    /\ AtJobEntry
    /\ LET p == IF InputPath \in DOMAIN fs /\ opMode # "Zip"
                THEN FopenPath ELSE InputPath
       IN /\ p \notin DOMAIN fs
          /\ \E f \in (IF srcMode = "I2O" THEN StdinProfiles
                       ELSE IF p = InputPath THEN InputProfiles
                       ELSE IF Len(args) = 1 /\ opMode = "Unzip" /\ srcMode = "F2F"
                               /\ ~config.force_overwrite
                       THEN {Absent, RegularFile(<<Member(<<1>>)>>, RW, "old", 0, TRUE)}
                       ELSE {Absent}) :
                fs' = Put(fs, p, f)
    /\ UNCHANGED <<modeVars, config, delete_output_on_interrupt,
                   numFilesProcessed, exitValue, nameVars,
                   outputHandleJustInCase, pc, argIdx, all_ok, job, exitCode,
                   hist>>

EnvObserveOutput ==
    /\ AtJobEntry
    /\ InputPath \in DOMAIN fs
    /\ HasOutput
    /\ OutputPath \notin DOMAIN fs
    /\ \E f \in (IF srcMode = "F2F" THEN OutputProfiles ELSE StdoutProfiles) :
          fs' = Put(fs, OutputPath, f)
    /\ UNCHANGED <<modeVars, config, delete_output_on_interrupt,
                   numFilesProcessed, exitValue, nameVars,
                   outputHandleJustInCase, pc, argIdx, all_ok, job, exitCode,
                   hist>>

\* The path the next step opens for reading, while the job is about to open.
OpeningPath ==
    CASE pc = "c_open" /\ srcMode # "F2F" -> InputPath
      [] pc = "c_open_in" -> InputPath
      [] pc \in {"u_open", "t_open"} -> FopenPath
      [] OTHER -> <<>>


\* The content of an input is fixed when it is first opened.
EnvBindContent ==
    /\ OpeningPath # <<>>
    /\ ~Lookup(fs, OpeningPath).bound
    /\ \E c \in (IF opMode = "Zip" THEN RawFiles ELSE Containers) :
          fs' = Put(fs, OpeningPath, [fs[OpeningPath] EXCEPT !.data = c, !.bound = TRUE])
    /\ UNCHANGED <<modeVars, config, delete_output_on_interrupt,
                   numFilesProcessed, exitValue, nameVars,
                   outputHandleJustInCase, pc, argIdx, all_ok, job, exitCode,
                   hist>>

\* Another process unlinks the input: before the metadata is captured, just
\* before the write session is closed, or once the streams are done.
EnvUnlinkInput ==
    /\ pc \in {"c_meta", "u_meta", "cs_close", "c_time", "u_time"}
    /\ srcMode = "F2F"
    /\ Exists(fs, config.input)
    /\ fs' = Unlink(fs, config.input)
    /\ UNCHANGED <<modeVars, config, delete_output_on_interrupt,
                   numFilesProcessed, exitValue, nameVars,
                   outputHandleJustInCase, pc, argIdx, all_ok, job, exitCode,
                   hist>>

\* Another process creates the output path after the job's existence check
\* and before the job opens it (lines 1250-1265 against 1329, lines 1476-1496
\* against 1557).
EnvCreateOutput ==
    /\ pc \in {"c_open", "u_open_out"}
    /\ srcMode = "F2F"
    /\ ~Exists(fs, config.output)
    /\ fs' = Put(fs, config.output, RegularFile(<<Junk>>, RW, "foreign", 0, TRUE))
    /\ UNCHANGED <<modeVars, config, delete_output_on_interrupt,
                   numFilesProcessed, exitValue, nameVars,
                   outputHandleJustInCase, pc, argIdx, all_ok, job, exitCode,
                   hist>>

(***************************************************************************)
(* File primitives.                                                        *)
(***************************************************************************)
\* A file can be opened for reading / for writing.
CanRead(f, p) == Exists(f, p) /\ (Lookup(f, p).kind \in {"tty", "pipe"} \/ "r" \in Lookup(f, p).mode)

\* An open handle reading p from its start.
OpenRead(f, p) == [st |-> "open", path |-> p, pos |-> 0, data |-> Lookup(f, p).data]
\* An open handle writing p.
OpenWrite(p) == [st |-> "open", path |-> p, pos |-> 0, data |-> <<>>]

\* myfeof / a read returning 0 bytes.
myfeof(h) == h.pos >= Len(h.data)

\* Bytes appended through a handle reach the file it names.
AppendTo(f, p, toks) ==
    IF Exists(f, p) THEN Put(f, p, [f[p] EXCEPT !.data = @ \o toks, !.mtime = "new"])
    ELSE f

\* The compressed bytes of an unfinished write session replace what the
\* session had written before; closing the session completes the member.
WithoutPartial(data) ==
    IF data # <<>> /\ data[Len(data)].k = "trunc"
    THEN SubSeq(data, 1, Len(data) - 1) ELSE data
WriteCompressed(f, p, tok) ==
    IF Exists(f, p)
    THEN Put(f, p, [f[p] EXCEPT !.data = WithoutPartial(@) \o <<tok>>, !.mtime = "new"])
    ELSE f

(***************************************************************************)
(* compress, lines 1175-1377.                                              *)
(***************************************************************************)
\* not_a_standard_file, lines 1072-1078.
not_a_standard_file(p) == Lookup(fs, p).kind # "file"
\* count_hardlinks, lines 1081-1089.
count_hardlinks(p) == Lookup(fs, p).nlink

\* The first precondition a compress job violates, "none" when all pass
\* (lines 1178-1265, in the order of the code).
CompressRefusal_LinksFirst ==
    CASE srcMode # "I2O" /\ ~Exists(fs, config.input) -> "refused_noinput"
      [] AlreadyHasSuffix(config.input) -> "refused_suffix"
      [] srcMode # "I2O" /\ Lookup(fs, config.input).kind = "dir" -> "refused_dir"
      [] srcMode = "F2F" /\ ~config.force_overwrite
            /\ not_a_standard_file(config.input) -> "refused_notregular"
      [] srcMode = "F2F" /\ ~config.force_overwrite
            /\ count_hardlinks(config.input) > 0 -> "refused_links"
      [] srcMode = "F2F" /\ Exists(fs, config.output)
            /\ ~config.force_overwrite -> "refused_outexists"
      [] OTHER -> "none"

\* Lines 1177-1265: the preconditions of compress, in the order of the code.
CompressRefusal ==
    CASE srcMode # "I2O" /\ ~Exists(fs, config.input) -> "refused_noinput"
      [] AlreadyHasSuffix(config.input) -> "refused_suffix"
      [] srcMode # "I2O" /\ Lookup(fs, config.input).kind = "dir" -> "refused_dir"
      [] srcMode = "F2F" /\ ~config.force_overwrite
            /\ not_a_standard_file(config.input) -> "refused_notregular"
      [] srcMode = "F2F" /\ Exists(fs, config.output)
            /\ ~config.force_overwrite -> "refused_outexists"
      [] srcMode = "F2F" /\ ~config.force_overwrite
            /\ count_hardlinks(config.input) > 0 -> "refused_links"
      [] OTHER -> "none"

\* Lines 1236-1238: with overwrite-force an existing output is removed.
ForcedRemoval ==
    IF srcMode = "F2F" /\ Exists(fs, config.output) /\ config.force_overwrite
    THEN Unlink(fs, config.output) ELSE fs

\* A refusal that removes the output it found.
Compress_Preconditions_Unlinking ==
    /\ pc = "c_pre"
    /\ Observed
    /\ IF CompressRefusal # "none"
       THEN ReturnH(TRUE, CompressRefusal, 1, job, Unlink(fs, config.output), FALSE,
                    [hist EXCEPT !.fsAtStart = fs])
       ELSE Goto("c_meta", job, ForcedRemoval, FALSE, outputHandleJustInCase,
                 [hist EXCEPT !.fsAtStart = fs])

\* Lines 1176-1265: clear the deletable flag, then the preconditions.
Compress_Preconditions ==
    /\ pc = "c_pre"
    /\ Observed
    /\ IF CompressRefusal # "none"
       THEN ReturnH(TRUE, CompressRefusal, 1, job, fs, FALSE,
                    [hist EXCEPT !.fsAtStart = fs])
       ELSE Goto("c_meta", job, ForcedRemoval, FALSE, outputHandleJustInCase,
                 [hist EXCEPT !.fsAtStart = fs])

\* Lines 1269-1275: the input's metadata is saved in file-to-file mode.
SaveMetadata(nextpc) ==
    IF srcMode # "F2F" THEN Step(nextpc, job, fs)
    ELSE IF ~Exists(fs, config.input) THEN ioError(job, fs)
    ELSE Step(nextpc,
              [job EXCEPT !.metadata =
                  [has |-> TRUE, mode |-> fs[config.input].mode,
                   mtime |-> fs[config.input].mtime]],
              fs)

Compress_SaveMetadata ==
    /\ pc = "c_meta"
    /\ SaveMetadata("c_open")

\* The history entry for the input a job opens.
InputSeen(p) ==
    [hist EXCEPT !.input = [path |-> p, data |-> Lookup(fs, p).data,
                            mode |-> Lookup(fs, p).mode,
                            mtime |-> Lookup(fs, p).mtime]]

CanCreate_Truncating(p) == TRUE

\* fopen_output_safely, lines 1031-1055 (the unix build): create_new, mode
\* 0600.
CanCreate(p) == ~Exists(fs, p)
Created(p) == Put(fs, p, RegularFile(<<>>, RW, "new", 0, TRUE))

\* Lines 1280-1339: the handles; in file-to-file mode the output is created
\* first (the input is opened by Compress_OpenInput).
Compress_Open ==
    /\ pc = "c_open"
    /\ srcMode = "F2F" \/ Lookup(fs, InputPath).bound
    /\ CASE srcMode = "F2F" ->
              IF CanCreate(config.output)
              THEN Goto("c_open_in",
                        [job EXCEPT !.outStr = OpenWrite(config.output)],
                        Created(config.output), delete_output_on_interrupt,
                        outputHandleJustInCase,
                        [hist EXCEPT !.created = TRUE])
              ELSE Return(TRUE, "fail_create", 1, job, fs, delete_output_on_interrupt)
         [] Lookup(fs, STDOUT_F).kind = "tty" ->
              Return(TRUE, "refused_tty", 1, job, fs, delete_output_on_interrupt)
         [] srcMode = "F2O" /\ ~CanRead(fs, config.input) ->
              Return(TRUE, "fail_openin", 1, job, fs, delete_output_on_interrupt)
         [] OTHER ->
              Goto("c_arm1",
                   [job EXCEPT !.outStr = OpenWrite(STDOUT_F),
                               !.inStr = OpenRead(fs, InputPath)],
                   fs, delete_output_on_interrupt, outputHandleJustInCase,
                   InputSeen(InputPath))

\* Lines 1341-1353: open the input; on failure the job returns.
Compress_OpenInput ==
    /\ pc = "c_open_in"
    /\ Lookup(fs, InputPath).bound
    /\ IF CanRead(fs, config.input)
       THEN Goto("c_arm1", [job EXCEPT !.inStr = OpenRead(fs, InputPath)], fs,
                 delete_output_on_interrupt, outputHandleJustInCase,
                 InputSeen(InputPath))
       ELSE Return(TRUE, "fail_openin", 1, job, fs, delete_output_on_interrupt)

\* Line 1360.
Compress_RecordHandle ==
    /\ pc = "c_arm1"
    /\ Goto("c_arm2", job, fs, delete_output_on_interrupt, "outStr", hist)

\* Line 1361.
Compress_SetDeletable ==
    /\ pc = "c_arm2"
    /\ Goto("cs_open", job, fs, TRUE, outputHandleJustInCase, hist)

\* Line 1363.
Compress_ClearHandle ==
    /\ pc = "c_post"
    /\ Goto("c_time", job, fs, delete_output_on_interrupt, "NULL", hist)

\* apply_saved_time_info_to_output_file, lines 1096-1104: the output is
\* opened for writing by name and given the saved times.
CanApplyTimes ==
    /\ Exists(fs, config.output)
    /\ "w" \in Lookup(fs, config.output).mode
    /\ Lookup(fs, config.output).kind # "dir"
AppliedTimes ==
    Put(fs, config.output, [fs[config.output] EXCEPT !.mtime = job.metadata.mtime])

\* Lines 1365-1368.
Compress_ApplyTimes ==
    /\ pc = "c_time"
    /\ IF ~job.metadata.has THEN Step("c_end", job, fs)
       ELSE IF CanApplyTimes
       THEN Goto("c_clear", job, AppliedTimes, delete_output_on_interrupt,
                 outputHandleJustInCase, [hist EXCEPT !.times = TRUE])
       ELSE ioError(job, fs)

\* The store of line 1369 left out.
Compress_ClearDeletable_Skipped ==
    /\ pc = "c_clear"
    /\ Goto(IF config.keep_input_files THEN "c_end" ELSE "c_rm",
            job, fs, delete_output_on_interrupt, outputHandleJustInCase, hist)

\* Line 1369.
Compress_ClearDeletable ==
    /\ pc = "c_clear"
    /\ Goto(IF config.keep_input_files THEN "c_end" ELSE "c_rm",
            job, fs, FALSE, outputHandleJustInCase, hist)

\* Lines 1370-1374.
Compress_RemoveInput ==
    /\ pc = "c_rm"
    /\ IF Exists(fs, config.input)
       THEN Goto("c_end", job, Unlink(fs, config.input),
                 delete_output_on_interrupt, outputHandleJustInCase,
                 [hist EXCEPT !.removed = TRUE])
       ELSE ioError(job, fs)

\* Line 1376, and the return to the job loop.
\* compress returning without its last store.
Compress_Done_KeepingFlag ==
    /\ pc = "c_end"
    /\ Return(TRUE, "success", 0, job, fs, delete_output_on_interrupt)

\* Line 1376: the last store of compress, then the return.
Compress_Done ==
    /\ pc = "c_end"
    /\ Return(TRUE, "success", 0, job, fs, FALSE)

(***************************************************************************)
(* compressStream, lines 276-411.                                          *)
(***************************************************************************)
\* What BZ2_bzWriteOpen, BZ2_bzWrite and BZ2_bzWriteClose64 may report.
WriteStatuses == {BZ_OK, BZ_CONFIG_ERROR, BZ_MEM_ERROR, BZ_IO_ERROR, BZ_PARAM_ERROR}

\* Lines 297-308.
CompressStream_Open ==
    /\ pc = "cs_open"
    /\ \E st \in WriteStatuses :
          Step(IF st = BZ_OK THEN "cs_loop" ELSE "cs_err",
               [job EXCEPT !.bzerr = st,
                           !.bzf = IF st = BZ_OK
                                   THEN [NullSession EXCEPT !.st = "open"]
                                   ELSE NullSession],
               fs)

\* Lines 314-331: one round of the loop: read a chunk, write it to the session.
CompressStream_Chunk ==
    /\ pc = "cs_loop"
    /\ IF myfeof(job.inStr)
       THEN Step("cs_close", job, fs)
       ELSE \E st \in {BZ_OK, BZ_IO_ERROR} :
              LET chunk == job.inStr.data[job.inStr.pos + 1].v
                  wr == job.bzf.wr \o chunk
              IN IF st = BZ_OK
                 THEN Step("cs_loop",
                           [job EXCEPT !.bzerr = st, !.inStr.pos = @ + 1,
                                       !.bzf.wr = wr],
                           WriteCompressed(fs, job.outStr.path, Trunc(wr)))
                 ELSE Step("cs_err", [job EXCEPT !.bzerr = st, !.inStr.pos = @ + 1], fs)

\* Lines 333-355: close the session (abandon = 0), then ferror and fflush.
CompressStream_Close ==
    /\ pc = "cs_close"
    /\ \E st \in {BZ_OK, BZ_IO_ERROR}, flushed \in BOOLEAN :
          LET closed == [job EXCEPT !.bzerr = st, !.bzf.st = "closed"]
              written == WriteCompressed(fs, job.outStr.path, Member(job.bzf.wr))
          IN IF st # BZ_OK THEN Step("cs_err", [job EXCEPT !.bzerr = st], fs)
             ELSE IF ~flushed THEN ioError(closed, written)
             ELSE Step(IF job.metadata.has THEN "cs_perm" ELSE "cs_ret",
                       closed, written)

\* set_permissions, lines 1106-1125: fchmod to the saved mode.
Chmod(f, p, mode) == IF Exists(f, p) THEN Put(f, p, [f[p] EXCEPT !.mode = mode]) ELSE f

\* Line 358.
CompressStream_SetPermissions ==
    /\ pc = "cs_perm"
    /\ \E ok \in BOOLEAN :
          IF ok THEN Goto("cs_null", job,
                          Chmod(fs, job.outStr.path, job.metadata.mode),
                          delete_output_on_interrupt, outputHandleJustInCase,
                          [hist EXCEPT !.perms = TRUE])
          ELSE ioError(job, fs)

\* The store of line 359 left out.
CompressStream_ClearHandle_Skipped ==
    /\ pc = "cs_null"
    /\ Step("cs_fclose", job, fs)

\* Line 359.
CompressStream_ClearHandle ==
    /\ pc = "cs_null"
    /\ Goto("cs_fclose", job, fs, delete_output_on_interrupt, "NULL", hist)

\* Lines 360-364.
CompressStream_CloseOutput ==
    /\ pc = "cs_fclose"
    /\ \E ok \in BOOLEAN :
          IF ok THEN Step("cs_ret", [job EXCEPT !.outStr.st = "closed"], fs)
          ELSE ioError([job EXCEPT !.outStr.st = "closed"], fs)

\* Line 367 and the return at line 390; the input stream is dropped.
CompressStream_Return ==
    /\ pc = "cs_ret"
    /\ Goto("c_post", [job EXCEPT !.inStr.st = "closed"], fs,
            delete_output_on_interrupt, "NULL", hist)

\* The error path closing the session as the success path does.
CompressStream_ErrHandler_Finalizing ==
    /\ pc = "cs_err"
    /\ FatalByStatus(job.bzerr,
                     [job EXCEPT !.bzf.st = IF @ = "open" THEN "closed" ELSE @],
                     IF job.bzf.st = "open"
                     THEN WriteCompressed(fs, job.outStr.path, Member(job.bzf.wr))
                     ELSE fs)

\* Lines 393-410: close with abandon = 1 (nothing more is written, the session
\* is released), then the fatal diagnostic.
CompressStream_ErrHandler ==
    /\ pc = "cs_err"
    /\ FatalByStatus(job.bzerr,
                     [job EXCEPT !.bzf.st = IF @ = "open" THEN "abandoned" ELSE @],
                     fs)

(***************************************************************************)
(* The read side of the codec engine (BZ2_bzReadOpen, BZ2_bzRead,          *)
(* BZ2_bzReadGetUnused), as the stream drivers use it.                     *)
(***************************************************************************)
\* What BZ2_bzReadOpen may report.
ReadOpenStatuses == {BZ_OK, BZ_CONFIG_ERROR, BZ_MEM_ERROR, BZ_IO_ERROR}

\* BZ2_bzReadOpen: a session seeded with the unused bytes of the last one.
bzReadOpen(unused) == [NullSession EXCEPT !.st = "open", !.buf = unused]

\* The next BufTokens tokens of a handle.
ReadAhead(h) ==
    SubSeq(h.data, h.pos + 1,
           IF h.pos + BufTokens <= Len(h.data) THEN h.pos + BufTokens ELSE Len(h.data))

\* BZ2_bzRead: one call.  The session refills its buffer from the handle when
\* it has consumed it, takes up the member at the head of the buffer and
\* decodes one chunk of it.
bzRead(s, h) ==
    LET fill == ~s.mid /\ s.buf = <<>>
        buf == IF fill THEN ReadAhead(h) ELSE s.buf
        h1 == IF fill THEN [h EXCEPT !.pos = @ + Len(buf)] ELSE h
        starts == ~s.mid /\ buf # <<>> /\ buf[1].k = "member"
        cur == IF s.mid THEN s.cur ELSE IF starts THEN buf[1].v ELSE <<>>
        rest == IF starts THEN Tail(buf) ELSE buf
    IN IF s.mid \/ starts
       THEN IF Len(cur) <= 1
            THEN [status |-> BZ_STREAM_END, out |-> Decoded(cur), inStr |-> h1,
                  bzf |-> [s EXCEPT !.buf = rest, !.cur = <<>>, !.mid = FALSE]]
            ELSE [status |-> BZ_OK, out |-> Decoded(<<cur[1]>>), inStr |-> h1,
                  bzf |-> [s EXCEPT !.buf = rest, !.cur = Tail(cur), !.mid = TRUE]]
       ELSE [status |-> IF buf = <<>> THEN BZ_UNEXPECTED_EOF
                        ELSE CASE buf[1].k = "raw" -> BZ_DATA_ERROR_MAGIC
                               [] buf[1].k = "corrupt" -> BZ_DATA_ERROR
                               [] OTHER -> BZ_UNEXPECTED_EOF,
             out |-> <<>>, inStr |-> h1, bzf |-> [s EXCEPT !.buf = buf]]

\* BZ2_bzReadGetUnused: the bytes read past the end of the member.
bzReadGetUnused(s) == s.buf

(***************************************************************************)
(* uncompress, lines 1407-1639.                                            *)
(***************************************************************************)
\* The first precondition a decompress job violates (lines 1412-1496).
UncompressRefusal ==
    CASE srcMode # "I2O" /\ ~Exists(fs, config.input) -> "refused_noinput"
      [] srcMode # "I2O" /\ Lookup(fs, config.input).kind = "dir" -> "refused_dir"
      [] srcMode = "F2F" /\ ~config.force_overwrite
            /\ not_a_standard_file(config.input) -> "refused_notregular"
      [] srcMode = "F2F" /\ Exists(fs, config.output)
            /\ ~config.force_overwrite -> "refused_outexists"
      [] srcMode = "F2F" /\ ~config.force_overwrite
            /\ count_hardlinks(config.input) > 0 -> "refused_links"
      [] OTHER -> "none"

Uncompress_Preconditions ==
    /\ pc = "u_pre"
    /\ Observed
    /\ IF UncompressRefusal # "none"
       THEN ReturnH(TRUE, UncompressRefusal, 1, job, fs, FALSE,
                    [hist EXCEPT !.fsAtStart = fs])
       ELSE Goto("u_meta", job, ForcedRemoval, FALSE, outputHandleJustInCase,
                 [hist EXCEPT !.fsAtStart = fs])

Uncompress_SaveMetadata ==
    /\ pc = "u_meta"
    /\ SaveMetadata("u_open")

\* fopen(inName, "rb"): the name is read from the global buffer.
FopenInName == IF CanRead(fs, FopenPath) THEN OpenRead(fs, FopenPath) ELSE NullFile

\* Lines 1511-1552: the input handle.
Uncompress_OpenInput ==
    /\ pc = "u_open"
    /\ Lookup(fs, FopenPath).bound
    /\ CASE srcMode = "I2O" ->
              IF Lookup(fs, STDIN_F).kind = "tty"
              THEN Return(TRUE, "refused_tty", 1, job, fs, delete_output_on_interrupt)
              ELSE Goto("u_arm",
                        [job EXCEPT !.inStr = OpenRead(fs, STDIN_F),
                                    !.outStr = OpenWrite(STDOUT_F)],
                        fs, delete_output_on_interrupt, outputHandleJustInCase,
                        InputSeen(STDIN_F))
         [] srcMode = "F2O" ->
              IF FopenInName.st = "null"
              THEN Return(TRUE, "fail_openin", 1, job, fs, delete_output_on_interrupt)
              ELSE Goto("u_arm",
                        [job EXCEPT !.inStr = FopenInName,
                                    !.outStr = OpenWrite(STDOUT_F)],
                        fs, delete_output_on_interrupt, outputHandleJustInCase,
                        InputSeen(FopenPath))
         [] OTHER ->
              Goto("u_open_out", [job EXCEPT !.inStr = FopenInName], fs,
                   delete_output_on_interrupt, outputHandleJustInCase,
                   IF FopenInName.st = "null" THEN hist ELSE InputSeen(FopenPath))

\* Lines 1554-1583: create the output, then look at the input handle.
Uncompress_CreateOutput ==
    /\ pc = "u_open_out"
    /\ IF ~CanCreate(config.output)
       THEN Return(TRUE, "fail_create", 1,
                   [job EXCEPT !.inStr.st = IF @ = "open" THEN "closed" ELSE @],
                   fs, delete_output_on_interrupt)
       ELSE IF job.inStr.st = "null"
       THEN ReturnH(TRUE, "fail_openin", 1, job, Created(config.output),
                    delete_output_on_interrupt, [hist EXCEPT !.created = TRUE])
       ELSE Goto("u_arm", [job EXCEPT !.outStr = OpenWrite(config.output)],
                 Created(config.output), delete_output_on_interrupt,
                 outputHandleJustInCase, [hist EXCEPT !.created = TRUE])

\* Line 1593.
Uncompress_SetDeletable ==
    /\ pc = "u_arm"
    /\ Goto("us_open", job, fs, TRUE, outputHandleJustInCase, hist)

\* Line 1595, and the branch on magicNumberOK.
Uncompress_ClearHandle ==
    /\ pc = "u_post"
    /\ Goto(IF job.ret THEN "u_time" ELSE "u_failclear", job, fs,
            delete_output_on_interrupt, "NULL", hist)

\* Lines 1599-1602.
Uncompress_ApplyTimes ==
    /\ pc = "u_time"
    /\ IF ~job.metadata.has THEN Step("u_end", job, fs)
       ELSE IF CanApplyTimes
       THEN Goto("u_clear", job, AppliedTimes, delete_output_on_interrupt,
                 outputHandleJustInCase, [hist EXCEPT !.times = TRUE])
       ELSE ioError(job, fs)

\* Line 1603.
Uncompress_ClearDeletable ==
    /\ pc = "u_clear"
    /\ Goto(IF config.keep_input_files THEN "u_end" ELSE "u_rm",
            job, fs, FALSE, outputHandleJustInCase, hist)

\* Lines 1604-1608.
Uncompress_RemoveInput ==
    /\ pc = "u_rm"
    /\ IF Exists(fs, config.input)
       THEN Goto("u_end", job, Unlink(fs, config.input),
                 delete_output_on_interrupt, outputHandleJustInCase,
                 [hist EXCEPT !.removed = TRUE])
       ELSE ioError(job, fs)

\* Line 1611.
Uncompress_FailClearDeletable ==
    /\ pc = "u_failclear"
    /\ Goto(IF srcMode = "F2F" THEN "u_rmout" ELSE "u_end",
            job, fs, FALSE, outputHandleJustInCase, hist)

\* Lines 1612-1616.
Uncompress_RemoveOutput ==
    /\ pc = "u_rmout"
    /\ IF Exists(fs, config.output)
       THEN Step("u_end", job, Unlink(fs, config.output))
       ELSE ioError(job, fs)

\* Lines 1619-1638.
Uncompress_Done ==
    /\ pc = "u_end"
    /\ IF job.ret
       THEN Return(TRUE, "success", 0, job, fs, FALSE)
       ELSE Return(FALSE, "not_bzip2", 2, job, fs, FALSE)

(***************************************************************************)
(* uncompressStream, lines 413-599.                                        *)
(***************************************************************************)
\* Lines 449-461: State::Standard opens a read session.
UncompressStream_Open ==
    /\ pc = "us_open"
    /\ \E st \in ReadOpenStatuses :
          IF st = BZ_OK
          THEN Step("us_read",
                    [job EXCEPT !.bzerr = st, !.bzf = bzReadOpen(job.unused),
                                !.streamNo = @ + 1],
                    fs)
          ELSE Step("us_err", [job EXCEPT !.bzerr = st], fs)

\* Lines 463-486: one BZ2_bzRead and what follows it.
UncompressStream_Read ==
    /\ pc = "us_read"
    /\ \E failed \in BOOLEAN :
          LET r == bzRead(job.bzf, job.inStr)
              after == [job EXCEPT !.bzerr = r.status, !.bzf = r.bzf, !.inStr = r.inStr]
          IN IF failed THEN Step("us_err", [job EXCEPT !.bzerr = BZ_IO_ERROR], fs)
             ELSE CASE r.status = BZ_DATA_ERROR_MAGIC ->
                         Goto("us_trycat", after, fs, delete_output_on_interrupt,
                              outputHandleJustInCase,
                              [hist EXCEPT !.magic = job.streamNo])
                    [] r.status = BZ_OK ->
                         Step("us_read", after, AppendTo(fs, job.outStr.path, r.out))
                    [] r.status = BZ_STREAM_END ->
                         Step("us_unused", after, AppendTo(fs, job.outStr.path, r.out))
                    [] OTHER -> Step("us_err", after, fs)

\* An end test that looks at the end of the file only.
UncompressStream_Unused_EofOnly ==
    /\ pc = "us_unused"
    /\ LET unused == bzReadGetUnused(job.bzf)
       IN Step(IF myfeof(job.inStr) THEN "us_closeok" ELSE "us_open",
               [job EXCEPT !.unused = unused, !.bzf.st = "closed", !.bzerr = BZ_OK],
               fs)

\* Lines 488-508: keep the unused bytes, close the session, test for the end.
UncompressStream_Unused ==
    /\ pc = "us_unused"
    /\ LET unused == bzReadGetUnused(job.bzf)
       IN Step(IF unused = <<>> /\ myfeof(job.inStr) THEN "us_closeok" ELSE "us_open",
               [job EXCEPT !.unused = unused, !.bzf.st = "closed", !.bzerr = BZ_OK],
               fs)

\* Lines 511-520: State::CloseOk restores the permissions on a file output.
UncompressStream_SetPermissions ==
    /\ pc = "us_closeok"
    /\ IF job.metadata.has /\ srcMode = "F2F"
       THEN \E ok \in BOOLEAN :
              IF ok THEN Goto("us_fclose", job,
                              Chmod(fs, job.outStr.path, job.metadata.mode),
                              delete_output_on_interrupt, outputHandleJustInCase,
                              [hist EXCEPT !.perms = TRUE])
              ELSE ioError(job, fs)
       ELSE Step("us_fclose", job, fs)

\* Lines 522-534: close the input, flush the output, return true (the output
\* is dropped with the driver's frame).
UncompressStream_Close ==
    /\ pc = "us_fclose"
    /\ \E ok \in BOOLEAN :
          IF ok
          THEN Step("u_post",
                    [job EXCEPT !.inStr.st = "closed", !.outStr.st = "closed",
                                !.ret = TRUE],
                    fs)
          ELSE ioError([job EXCEPT !.inStr.st = "closed"], fs)

\* rewind(): back to the start of a file; a pipe or terminal cannot seek and
\* stays where it is.
Seekable(h) == Lookup(fs, h.path).kind \notin {"pipe", "tty"}
rewind(h) == IF Seekable(h) THEN [h EXCEPT !.pos = 0] ELSE h

\* Lines 536-538 and 562-565: State::TryCat.
UncompressStream_TryCat ==
    /\ pc = "us_trycat"
    /\ IF config.force_overwrite
       THEN Goto("us_cat", [job EXCEPT !.inStr = rewind(@)], fs,
                 delete_output_on_interrupt, outputHandleJustInCase,
                 [hist EXCEPT !.rewound = Seekable(job.inStr)])
       ELSE Step("us_err", job, fs)

\* A copy loop that starts over when it reaches the end of the input.
UncompressStream_Cat_Restarting ==
    /\ pc = "us_cat"
    /\ IF myfeof(job.inStr)
       THEN Step("us_trycat", job, fs)
       ELSE Step("us_cat", [job EXCEPT !.inStr.pos = @ + 1],
                 AppendTo(fs, job.outStr.path, <<job.inStr.data[job.inStr.pos + 1]>>))

\* Lines 539-561: the copy loop, one fread per step.
UncompressStream_Cat ==
    /\ pc = "us_cat"
    /\ IF myfeof(job.inStr)
       THEN Step("us_closeok", job, fs)
       ELSE Step("us_cat", [job EXCEPT !.inStr.pos = @ + 1],
                 AppendTo(fs, job.outStr.path, <<job.inStr.data[job.inStr.pos + 1]>>))

\* Lines 581-592 and 707-715: bad magic is a failure on the first member
\* only; later it is trailing garbage.
MagicVerdict_Lenient(streamNo) == TRUE
MagicVerdict(streamNo) == streamNo # 1

\* Lines 567-596: State::ErrHandler.
UncompressStream_ErrHandler ==
    /\ pc = "us_err"
    /\ LET closed == [job EXCEPT !.bzf.st = IF @ = "open" THEN "closed" ELSE @]
       IN CASE job.bzerr = BZ_CONFIG_ERROR -> configError(closed, fs)
            [] job.bzerr \in {BZ_IO_ERROR, BZ_MEM_ERROR} -> ioError(closed, fs)
            [] job.bzerr \in {BZ_DATA_ERROR, BZ_UNEXPECTED_EOF} -> crcError(closed, fs)
            [] job.bzerr = BZ_DATA_ERROR_MAGIC ->
                 Step("u_post",
                      [closed EXCEPT
                         !.inStr.st = IF srcMode = "I2O" THEN @ ELSE "closed",
                         !.outStr.st = "closed",
                         !.ret = MagicVerdict(job.streamNo)],
                      fs)
            [] OTHER -> panic_str(closed, fs)

(***************************************************************************)
(* testf, lines 1641-1721, and testStream, lines 601-719.                  *)
(***************************************************************************)
TestRefusal ==
    CASE srcMode # "I2O" /\ ~Exists(fs, config.input) -> "refused_noinput"
      [] srcMode # "I2O" /\ Lookup(fs, config.input).kind = "dir" -> "refused_dir"
      [] OTHER -> "none"

\* Lines 1642-1673.
Testf_Preconditions ==
    /\ pc = "t_pre"
    /\ Observed
    /\ IF TestRefusal # "none"
       THEN ReturnH(TRUE, TestRefusal, 1, job, fs, FALSE,
                    [hist EXCEPT !.fsAtStart = fs])
       ELSE Goto("t_open", job, fs, FALSE, outputHandleJustInCase,
                 [hist EXCEPT !.fsAtStart = fs])

\* Lines 1675-1709.
Testf_OpenInput ==
    /\ pc = "t_open"
    /\ Lookup(fs, FopenPath).bound
    /\ IF srcMode = "I2O" /\ Lookup(fs, STDIN_F).kind = "tty"
       THEN Return(TRUE, "refused_tty", 1, job, fs, delete_output_on_interrupt)
       ELSE IF FopenInName.st = "null"
       THEN Return(TRUE, "fail_openin", 1, job, fs, delete_output_on_interrupt)
       ELSE Goto("t_null", [job EXCEPT !.inStr = FopenInName], fs,
                 delete_output_on_interrupt, outputHandleJustInCase,
                 InputSeen(FopenPath))

\* Line 1714.
\* testf marking its (absent) output deletable before the stream is tested.
Testf_ClearHandle_Arming ==
    /\ pc = "t_null"
    /\ Goto("ts_open", job, fs, TRUE, "NULL", hist)

\* Line 1714.
Testf_ClearHandle ==
    /\ pc = "t_null"
    /\ Goto("ts_open", job, fs, delete_output_on_interrupt, "NULL", hist)

\* Lines 613-627.
TestStream_Open ==
    /\ pc = "ts_open"
    /\ \E st \in ReadOpenStatuses :
          IF st = BZ_OK
          THEN Step("ts_read",
                    [job EXCEPT !.bzerr = st, !.bzf = bzReadOpen(job.unused),
                                !.streamNo = @ + 1],
                    fs)
          ELSE ioError([job EXCEPT !.bzerr = st], fs)

\* Lines 629-643: one BZ2_bzRead; the decoded bytes are dropped.
TestStream_Read ==
    /\ pc = "ts_read"
    /\ \E failed \in BOOLEAN :
          LET r == bzRead(job.bzf, job.inStr)
              after == [job EXCEPT !.bzerr = r.status, !.bzf = r.bzf, !.inStr = r.inStr]
          IN IF failed THEN Step("ts_err", [job EXCEPT !.bzerr = BZ_IO_ERROR], fs)
             ELSE CASE r.status = BZ_OK -> Step("ts_read", after, fs)
                    [] r.status = BZ_STREAM_END -> Step("ts_unused", after, fs)
                    [] r.status = BZ_DATA_ERROR_MAGIC ->
                         Goto("ts_err", after, fs, delete_output_on_interrupt,
                              outputHandleJustInCase,
                              [hist EXCEPT !.magic = job.streamNo])
                    [] OTHER -> Step("ts_err", after, fs)

\* A driver that forgets the unused bytes of the member it has finished.
TestStream_Unused_Dropped ==
    /\ pc = "ts_unused"
    /\ LET unused == bzReadGetUnused(job.bzf)
       IN Step(IF unused = <<>> /\ myfeof(job.inStr) THEN "ts_close" ELSE "ts_open",
               [job EXCEPT !.unused = <<>>, !.bzf.st = "closed", !.bzerr = BZ_OK],
               fs)

\* Lines 645-664.
TestStream_Unused ==
    /\ pc = "ts_unused"
    /\ LET unused == bzReadGetUnused(job.bzf)
       IN Step(IF unused = <<>> /\ myfeof(job.inStr) THEN "ts_close" ELSE "ts_open",
               [job EXCEPT !.unused = unused, !.bzf.st = "closed", !.bzerr = BZ_OK],
               fs)

\* Lines 667-678, and testf's return of allOK.
TestStream_Close ==
    /\ pc = "ts_close"
    /\ \E ok \in BOOLEAN :
          IF ok THEN Return(TRUE, "success", 0, [job EXCEPT !.inStr.st = "closed"],
                            fs, delete_output_on_interrupt)
          ELSE ioError([job EXCEPT !.inStr.st = "closed"], fs)

\* A handler that tolerates every status after the first member.
TestVerdict_Lenient(status, streamNo) == MagicVerdict(streamNo)

\* The result of testStream's error handler for a per-job status.
TestVerdict(status, streamNo) ==
    CASE status = BZ_DATA_ERROR -> FALSE
      [] status = BZ_UNEXPECTED_EOF -> FALSE
      [] OTHER -> MagicVerdict(streamNo)

TestOutcome(status, streamNo) ==
    CASE status = BZ_DATA_ERROR -> "data_error"
      [] status = BZ_UNEXPECTED_EOF -> "unexpected_eof"
      [] streamNo = 1 -> "not_bzip2"
      [] OTHER -> "trailing_garbage"

\* An error handler that ends the process on a data error or an unexpected
\* end of the stream, as the decompress driver's does.
TestStream_ErrHandler_Fatal ==
    /\ pc = "ts_err"
    /\ LET closed == [job EXCEPT !.bzf.st = IF @ = "open" THEN "closed" ELSE @]
       IN CASE job.bzerr = BZ_CONFIG_ERROR -> configError(closed, fs)
            [] job.bzerr \in {BZ_IO_ERROR, BZ_MEM_ERROR} -> ioError(closed, fs)
            [] job.bzerr \in {BZ_DATA_ERROR, BZ_UNEXPECTED_EOF} -> crcError(closed, fs)
            [] job.bzerr = BZ_DATA_ERROR_MAGIC ->
                 Return(TestVerdict(job.bzerr, job.streamNo),
                        TestOutcome(job.bzerr, job.streamNo), 0,
                        [closed EXCEPT !.inStr.st = IF srcMode # "I2O"
                                                     THEN "closed" ELSE @],
                        fs, delete_output_on_interrupt)
            [] OTHER -> panic_str(closed, fs)

\* Lines 681-718: the error handler, and testf's return of allOK.
TestStream_ErrHandler ==
    /\ pc = "ts_err"
    /\ LET closed == [job EXCEPT !.bzf.st = IF @ = "open" THEN "closed" ELSE @]
       IN CASE job.bzerr = BZ_CONFIG_ERROR -> configError(closed, fs)
            [] job.bzerr \in {BZ_IO_ERROR, BZ_MEM_ERROR} -> ioError(closed, fs)
            [] job.bzerr \in {BZ_DATA_ERROR, BZ_UNEXPECTED_EOF, BZ_DATA_ERROR_MAGIC} ->
                 Return(TestVerdict(job.bzerr, job.streamNo),
                        TestOutcome(job.bzerr, job.streamNo), 0,
                        [closed EXCEPT
                           !.ret = TestVerdict(job.bzerr, job.streamNo),
                           !.inStr.st = IF job.bzerr = BZ_DATA_ERROR_MAGIC
                                           /\ srcMode # "I2O"
                                        THEN "closed" ELSE @],
                        fs, delete_output_on_interrupt)
            [] OTHER -> panic_str(closed, fs)

(***************************************************************************)
(* Signals.                                                                *)
(***************************************************************************)
\* The termination handler installed in every source mode.
CatcherInstalled_Always == TRUE

\* Lines 1993-2007: mySignalCatcher is installed for SIGINT, SIGTERM and
\* SIGHUP in file-to-file mode only.
CatcherInstalled == srcMode = "F2F"

\* mySignalCatcher, lines 877-883.
SigTerm ==
    /\ Running
    /\ CatcherInstalled
    /\ cleanUpAndFail(1, "sigterm", job, fs)

\* Without the catcher a termination signal ends the process at once.
SigTermDefault ==
    /\ Running
    /\ ~CatcherInstalled
    /\ pc' = "killed"
    /\ hist' = [hist EXCEPT !.exitFrom = pc, !.exitCause = "killed"]
    /\ UNCHANGED <<modeVars, config, delete_output_on_interrupt,
                   numFilesProcessed, exitValue, nameVars,
                   outputHandleJustInCase, argIdx, all_ok, job, fs, exitCode>>

\* A memory-fault handler that takes the cleanup path of the other handler.
SigSegv_CleaningUp ==
    /\ Running
    /\ cleanUpAndFail(IF opMode = "Zip" THEN 3 ELSE 2, "sigsegv", job, fs)

\* mySIGSEGVorSIGBUScatcher, lines 885-971: setExit(3) when compressing,
\* setExit(2) otherwise, then _exit(exitValue).
SigSegv ==
    /\ Running
    /\ ExitWith(IF opMode = "Zip" THEN 3 ELSE 2, "sigsegv", job, fs)

(***************************************************************************)
(* The whole program.                                                      *)
(***************************************************************************)
Next ==
    \/ MainNextJob
    \/ CopyInName
    \/ CopyOutName
    \/ MainFinish
    \/ EnvObserveInput
    \/ EnvObserveOutput
    \/ EnvBindContent
    \/ EnvUnlinkInput
    \/ EnvCreateOutput
    \/ Compress_Preconditions
    \/ Compress_SaveMetadata
    \/ Compress_Open
    \/ Compress_OpenInput
    \/ Compress_RecordHandle
    \/ Compress_SetDeletable
    \/ Compress_ClearHandle
    \/ Compress_ApplyTimes
    \/ Compress_ClearDeletable
    \/ Compress_RemoveInput
    \/ Compress_Done
    \/ CompressStream_Open
    \/ CompressStream_Chunk
    \/ CompressStream_Close
    \/ CompressStream_SetPermissions
    \/ CompressStream_ClearHandle
    \/ CompressStream_CloseOutput
    \/ CompressStream_Return
    \/ CompressStream_ErrHandler
    \/ Uncompress_Preconditions
    \/ Uncompress_SaveMetadata
    \/ Uncompress_OpenInput
    \/ Uncompress_CreateOutput
    \/ Uncompress_SetDeletable
    \/ Uncompress_ClearHandle
    \/ Uncompress_ApplyTimes
    \/ Uncompress_ClearDeletable
    \/ Uncompress_RemoveInput
    \/ Uncompress_FailClearDeletable
    \/ Uncompress_RemoveOutput
    \/ Uncompress_Done
    \/ UncompressStream_Open
    \/ UncompressStream_Read
    \/ UncompressStream_Unused
    \/ UncompressStream_SetPermissions
    \/ UncompressStream_Close
    \/ UncompressStream_TryCat
    \/ UncompressStream_Cat
    \/ UncompressStream_ErrHandler
    \/ Testf_Preconditions
    \/ Testf_OpenInput
    \/ Testf_ClearHandle
    \/ TestStream_Open
    \/ TestStream_Read
    \/ TestStream_Unused
    \/ TestStream_Close
    \/ TestStream_ErrHandler
    \/ SigTerm
    \/ SigTermDefault
    \/ SigSegv

Spec == Init /\ [][Next]_vars

(***************************************************************************)
(* A second run: the program is started again to decompress, file to file  *)
(* and with default flags, the file a successful default-flag compress run *)
(* of one file has produced.                                               *)
(***************************************************************************)
Restart ==
    /\ pc = "exited"
    /\ hist.phase = 1
    /\ hist.exitCause = "return"
    /\ hist.outcome = "success"
    /\ opMode = "Zip" /\ srcMode = "F2F" /\ Len(args) = 1
    /\ ~config.force_overwrite /\ ~config.keep_input_files
    /\ opMode' = "Unzip"
    /\ srcMode' = "F2F"
    /\ args' = <<config.output>>
    /\ config' = [input |-> NONE_NAME, output |-> NONE_NAME,
                  force_overwrite |-> FALSE, keep_input_files |-> FALSE]
    /\ delete_output_on_interrupt' = FALSE
    /\ numFilesProcessed' = 0
    /\ exitValue' = 0
    /\ inName' = copy_filename(<<>>, NONE_NAME)
    /\ outName' = copy_filename(<<>>, NONE_NAME)
    /\ outputHandleJustInCase' = "NULL"
    /\ pc' = "main"
    /\ argIdx' = 0
    /\ all_ok' = TRUE
    /\ job' = FreshJob
    /\ fs' = fs
    /\ exitCode' = -1
    /\ hist' = [FreshHist EXCEPT !.phase = 2, !.orig = hist.input]

NextRoundTrip == Next \/ Restart

SpecRoundTrip == Init /\ [][NextRoundTrip]_vars

(***************************************************************************)
(* Decompress and test runs to completion.  main_0 is one sequential       *)
(* thread: whenever the program has a next step it takes it, unless a      *)
(* signal ends the process first.                                          *)
(***************************************************************************)
InitDecode ==
    /\ Init
    /\ opMode # "Zip"
    /\ args \in {<<>>, <<N_abcdef_bz2>>}
    /\ ~config.keep_input_files

DecodeStep ==
    \/ MainNextJob
    \/ CopyInName
    \/ CopyOutName
    \/ MainFinish
    \/ EnvObserveInput
    \/ EnvObserveOutput
    \/ EnvBindContent
    \/ Uncompress_Preconditions
    \/ Uncompress_SaveMetadata
    \/ Uncompress_OpenInput
    \/ Uncompress_CreateOutput
    \/ Uncompress_SetDeletable
    \/ Uncompress_ClearHandle
    \/ Uncompress_ApplyTimes
    \/ Uncompress_ClearDeletable
    \/ Uncompress_RemoveInput
    \/ Uncompress_FailClearDeletable
    \/ Uncompress_RemoveOutput
    \/ Uncompress_Done
    \/ UncompressStream_Open
    \/ UncompressStream_Read
    \/ UncompressStream_Unused
    \/ UncompressStream_SetPermissions
    \/ UncompressStream_Close
    \/ UncompressStream_TryCat
    \/ UncompressStream_Cat
    \/ UncompressStream_ErrHandler
    \/ Testf_Preconditions
    \/ Testf_OpenInput
    \/ Testf_ClearHandle
    \/ TestStream_Open
    \/ TestStream_Read
    \/ TestStream_Unused
    \/ TestStream_Close
    \/ TestStream_ErrHandler

NextDecode ==
    \/ DecodeStep
    \/ EnvUnlinkInput
    \/ EnvCreateOutput
    \/ SigTerm
    \/ SigTermDefault
    \/ SigSegv

SpecDecode == InitDecode /\ [][NextDecode]_vars /\ WF_vars(DecodeStep)

(***************************************************************************)
(* Properties.                                                             *)
(***************************************************************************)
\* The positions of a job at which its output file exists and is open.
OutputOpenPcs ==
    {"c_open_in", "c_arm1", "c_arm2", "cs_open", "cs_loop", "cs_close",
     "cs_perm", "cs_null", "cs_fclose", "cs_err",
     "u_arm", "us_open", "us_read", "us_unused", "us_closeok", "us_fclose",
     "us_trycat", "us_cat", "us_err"}

\* The job has returned to the job loop.
JobReturned == pc = "main" /\ hist.outcome \notin {"none", "running"}

OutputData == Lookup(fs, OutputPath).data

\* The plain data of the members a container starts with.
RECURSIVE DecodedMembers(_)
DecodedMembers(data) ==
    IF data = <<>> \/ data[1].k # "member" THEN <<>>
    ELSE Decoded(data[1].v) \o DecodedMembers(Tail(data))

MaxCode(S) == CHOOSE m \in S \cup {0} : \A x \in S \cup {0} : x <= m

\* C1: in file-to-file compress or decompress, a termination signal caught
\* after the output file was created and before it was closed ends the
\* process with the output removed, provided the input still exists, and
\* with a non-zero exit code.
C1_SignalRemovesOutput ==
    (/\ pc = "exited"
     /\ hist.exitCause = "sigterm"
     /\ srcMode = "F2F" /\ opMode # "Test"
     /\ hist.created
     /\ hist.exitFrom \in OutputOpenPcs
     /\ Exists(fs, config.input))
    => (~Exists(fs, config.output) /\ exitCode > 0)

\* C2 as stated: the deletable flag is true only while the output handle is
\* open, false while saved permissions or timestamps are being restored,
\* and false once the job has concluded.
RestoringPcs == {"cs_perm", "c_time", "u_time"}
C2_FlagOnlyWhileOutputOpen ==
    (Running /\ opMode # "Test" /\ delete_output_on_interrupt)
    => (job.outStr.st = "open" /\ pc \notin RestoringPcs /\ pc # "main")

\* C2, amended: the deletable flag is true exactly from the store that
\* follows the opening of both handles until the saved timestamps have been
\* applied to the closed output (or, after a failed decompress, until the
\* output is about to be removed), hence also while permissions and
\* timestamps are being restored; it is false while the input is being
\* deleted and whenever no job is running.
ArmedPcs ==
    {"cs_open", "cs_loop", "cs_close", "cs_perm", "cs_null", "cs_fclose",
     "cs_ret", "cs_err", "c_post", "c_time", "c_clear",
     "us_open", "us_read", "us_unused", "us_closeok", "us_fclose",
     "us_trycat", "us_cat", "us_err", "u_post", "u_time", "u_clear",
     "u_failclear"}
\* Jobs without saved metadata reach their last store with the flag set.
LastStorePcs == {"c_end", "u_end"}
C2_FlagWindow ==
    Running =>
       /\ pc \in ArmedPcs => delete_output_on_interrupt
       /\ delete_output_on_interrupt => pc \in ArmedPcs \cup LastStorePcs
       /\ (pc \in LastStorePcs /\ job.metadata.has) => ~delete_output_on_interrupt
C2_Witness ==
    /\ pc = "c_time"
    /\ delete_output_on_interrupt
    /\ job.outStr.st = "closed"
    /\ job.metadata.has

\* C3: whenever a file-to-file compress or decompress job ends without
\* success after its output file was created, that output file does not
\* exist once the job has returned or the process has exited, provided the
\* input file still exists.
C3_NoOutputLeft ==
    (/\ srcMode = "F2F" /\ opMode # "Test"
     /\ hist.created
     /\ hist.outcome # "success"
     /\ pc \in {"main", "exited"}
     /\ Exists(fs, config.input))
    => ~Exists(fs, config.output)

\* C4: file-to-file compress of a file followed by file-to-file decompress
\* of the produced file, both with default flags, yields a file with the
\* original name and bytes whose modification time and permission bits are
\* those of the original input.
C4_RoundTrip ==
    (hist.phase = 2 /\ pc = "exited" /\ hist.exitCause = "return")
    => /\ Exists(fs, hist.orig.path)
       /\ Lookup(fs, hist.orig.path).data = hist.orig.data
       /\ Lookup(fs, hist.orig.path).mode = hist.orig.mode
       /\ Lookup(fs, hist.orig.path).mtime = hist.orig.mtime

\* C5: decompressing with overwrite-force an input of two valid members
\* followed by bytes that are not a member succeeds, and the output holds
\* exactly the decoded content of the two members.
TwoMembersThenJunk(data) ==
    /\ Len(data) = 3
    /\ data[1].k = "member" /\ data[2].k = "member" /\ data[3].k = "raw"
C5_ForcedTrailingGarbage ==
    (/\ opMode = "Unzip"
     /\ config.force_overwrite
     /\ JobReturned
     /\ TwoMembersThenJunk(hist.input.data))
    => (hist.outcome = "success" /\ OutputData = DecodedMembers(hist.input.data))

\* C6: a decompress job without overwrite-force that meets bad magic fails
\* when it was on the first member (the job reports false, the file-to-file
\* output is removed, the input is kept, exit code 2 is recorded and the job
\* loop goes on), and succeeds after at least one decoded member, the
\* output holding exactly the decoded content of the members read; the
\* stream function never ends the process with a fatal error on that status.
C6_BadMagicByMemberCount ==
    /\ (opMode = "Unzip" /\ ~config.force_overwrite /\ hist.magic > 0
           /\ pc = "exited" /\ hist.exitFrom \in {"us_trycat", "us_err"})
       => hist.exitCause # "fatal"
    /\ (/\ opMode = "Unzip"
        /\ ~config.force_overwrite
        /\ JobReturned
        /\ hist.magic > 0)
       => IF hist.magic = 1
          THEN /\ hist.outcome = "not_bzip2"
               /\ ~all_ok
               /\ srcMode = "F2F" => ~Exists(fs, config.output)
               /\ srcMode # "I2O" => Exists(fs, config.input)
               /\ 2 \in hist.recorded /\ exitValue >= 2
          ELSE /\ hist.outcome = "success"
               /\ OutputData = DecodedMembers(hist.input.data)
C6_Witness ==
    /\ opMode = "Unzip" /\ ~config.force_overwrite /\ srcMode = "F2F"
    /\ hist.magic = 1
    /\ JobReturned
    /\ hist.created
    /\ MoreJobs

\* C7: in test mode, whatever the statuses and flags, the input is never
\* rewound and no file is written, and a job whose input holds a member
\* with a data-integrity error reports failure.
HasCorruptMember(data) == \E i \in 1..Len(data) : data[i].k = "corrupt"
TestStreamPcs == {"ts_open", "ts_read", "ts_unused", "ts_close", "ts_err"}
C7_TestNeverCopies ==
    /\ [][opMode = "Test" =>
            /\ \A p \in DOMAIN fs : fs[p].bound => fs'[p] = fs[p]
            /\ (pc \in TestStreamPcs /\ pc' \in TestStreamPcs)
                  => job'.inStr.pos >= job.inStr.pos]_vars
    /\ []((opMode = "Test" /\ JobReturned /\ HasCorruptMember(hist.input.data))
            => (~all_ok /\ hist.outcome = "data_error"))
C7_Witness ==
    /\ opMode = "Test" /\ config.force_overwrite
    /\ JobReturned
    /\ HasCorruptMember(hist.input.data)
    /\ Len(hist.input.data) > 1

\* C8 as stated: after a file-to-file compress job was refused because its
\* output exists, the process exit code is 1.
RefusedOutputExists ==
    /\ opMode = "Zip" /\ srcMode = "F2F"
    /\ hist.outcome = "refused_outexists"
C8_ExitCodeIsOne ==
    (RefusedOutputExists /\ pc = "exited") => exitCode = 1

\* C8, amended: a file-to-file compress job whose output exists, run
\* without overwrite-force, leaves every file as it was, opens no handle,
\* leaves the input in place and records exit code 1; the process exit code
\* is then at least 1, and exactly 1 when nothing else recorded a code.
C8_RefusalFrame ==
    (RefusedOutputExists /\ pc \in {"main", "exited"})
    => /\ fs = hist.fsAtStart
       /\ Exists(fs, config.output) /\ Exists(fs, config.input)
       /\ job.inStr.st = "null" /\ job.outStr.st = "null"
       /\ outputHandleJustInCase = "NULL"
       /\ 1 \in hist.recorded /\ exitValue >= 1
       /\ pc = "exited" => exitCode >= 1
       /\ (pc = "exited" /\ hist.recorded = {1}) => exitCode = 1
C8_Witness ==
    /\ RefusedOutputExists
    /\ pc = "exited" /\ exitCode = 1
    /\ Lookup(fs, config.output).data = <<Junk>>

\* C9: a compress job whose input name ends with a known compressed-format
\* suffix is refused before any handle is opened: no file is created,
\* modified or deleted, the deletable flag stays false and exit code 1 is
\* recorded.
EndsWithKnownSuffix(name) == \E i \in 1..Len(Z_SUFFIX) : EndsWith(name, Z_SUFFIX[i])
C9_SuffixRefused ==
    (/\ opMode = "Zip" /\ srcMode # "I2O"
     /\ hist.ran >= 1
     /\ pc \notin {"copy_in", "copy_out"}
     /\ EndsWithKnownSuffix(config.input))
    => /\ pc \in {"c_pre", "main", "exited", "killed"}
       /\ job.inStr.st = "null" /\ job.outStr.st = "null"
       /\ ~delete_output_on_interrupt
       /\ pc = "main" => (1 \in hist.recorded /\ fs = hist.fsAtStart)

\* C10: the exit value never decreases during a run, and the code the
\* process exits with is the maximum of all codes recorded before the exit.
C10_ExitValueIsMax ==
    /\ [][exitValue' >= exitValue]_vars
    /\ [](exitValue = MaxCode(hist.recorded))
    /\ [](pc = "exited" => exitCode = MaxCode(hist.recorded))
C10_Witness ==
    /\ pc = "exited"
    /\ hist.ran = 2
    /\ hist.outcome = "success"
    /\ hist.exitCause = "return"
    /\ exitCode = 1

\* The outcomes of a job that completed successfully: plain success, and in
\* test mode success after trailing garbage.
SuccessOutcomes == {"success", "trailing_garbage"}

\* C11: the process exits with code 0 if and only if every job completed
\* successfully and the run ended by the return of the job loop (no fatal
\* error, no signal); and whenever some job had a data-integrity or a
\* not-a-compressed-file outcome the exit code is at least 2.
C11_ExitZeroIffAllSucceeded ==
    pc = "exited" =>
       /\ exitCode = 0 <=>
             (hist.exitCause = "return" /\ hist.outcomes \subseteq SuccessOutcomes)
       /\ hist.outcomes \cap {"data_error", "not_bzip2"} # {} => exitCode >= 2

\* The statuses that are outcomes of one job, and the error handlers of the
\* three stream drivers.
PerJobStatuses == {BZ_DATA_ERROR, BZ_UNEXPECTED_EOF, BZ_DATA_ERROR_MAGIC}
ErrHandlerPcs == {"cs_err", "us_err", "ts_err"}

\* C12: in the three stream drivers a data-integrity error, an unexpected
\* end of stream or a bad-magic status never ends the process (only a
\* resource status does), and a run that ends in the job loop has taken
\* every file argument.
C12_PerJobStatusesNotFatal ==
    /\ (pc = "exited" /\ hist.exitCause = "fatal" /\ hist.exitFrom \in ErrHandlerPcs)
       => job.bzerr \notin PerJobStatuses
    /\ (pc = "exited" /\ hist.exitFrom = "main"
           /\ hist.exitCause \in {"return", "exit"})
       => (srcMode # "I2O" => argIdx = Len(args))

\* C13: a file-to-file compress or decompress job that returns success has
\* applied both the saved permission bits and the saved timestamps to its
\* output; a job that returns failure has applied neither.
C13_MetadataFollowsSuccess ==
    (srcMode = "F2F" /\ opMode # "Test" /\ JobReturned)
    => IF hist.outcome = "success"
       THEN hist.perms /\ hist.times
       ELSE ~hist.perms /\ ~hist.times

\* C14: a job removes its input only in file-to-file mode without
\* keep-input, after the saved permissions and timestamps were applied to
\* the output and the deletable flag was cleared; a job that has removed
\* its input returns success, and a successful file-to-file job without
\* keep-input has removed it.
C14_InputDeletedLast ==
    /\ [][(hist'.removed /\ ~hist.removed)
            => /\ srcMode = "F2F" /\ opMode # "Test"
               /\ ~config.keep_input_files
               /\ hist.perms /\ hist.times
               /\ ~delete_output_on_interrupt]_vars
    /\ []((JobReturned /\ hist.removed) => hist.outcome = "success")
    /\ []((JobReturned /\ hist.outcome = "success" /\ srcMode = "F2F"
              /\ opMode # "Test" /\ ~config.keep_input_files)
            => hist.removed)

\* C15: a termination signal handled while the deletable flag is set
\* removes the output file when the input file exists at that moment and
\* leaves every file as it was when the input has vanished; in both cases
\* the process exits with a non-zero code.
C15_SignalRemovesIffInputExists ==
    [][(pc' = "exited" /\ hist'.exitCause = "sigterm" /\ delete_output_on_interrupt)
        => /\ Exists(fs, config.input) => ~Exists(fs', config.output)
           /\ ~Exists(fs, config.input) => fs' = fs
           /\ exitCode' > 0 /\ exitCode' = exitValue']_vars

\* C16: a memory-fault signal ends the process at once with exit code 3
\* when compressing and 2 otherwise; no file is closed or removed and the
\* deletable flag keeps its value, also when it is set.
C16_MemoryFaultExitsAtOnce ==
    [][(pc' = "exited" /\ hist'.exitCause = "sigsegv")
        => /\ exitCode' = IF opMode = "Zip" THEN 3 ELSE 2
           /\ fs' = fs
           /\ job' = job
           /\ outputHandleJustInCase' = outputHandleJustInCase
           /\ delete_output_on_interrupt' = delete_output_on_interrupt]_vars
C16_Witness ==
    /\ pc = "exited" /\ hist.exitCause = "sigsegv"
    /\ srcMode = "F2F" /\ opMode = "Unzip"
    /\ delete_output_on_interrupt
    /\ outputHandleJustInCase = "NULL" /\ job.outStr.st = "open"
    /\ Exists(fs, CStr(inName)) /\ Exists(fs, CStr(outName))
    /\ 1 \in hist.recorded
    /\ exitCode = 2

\* C17: a fatal error raised in a file-to-file compress or decompress job
\* while the deletable flag is set ends the process with the job's output
\* removed, provided the job's input still exists.
C17_FatalErrorCleansUp ==
    (/\ pc = "exited" /\ hist.exitCause = "fatal"
     /\ srcMode = "F2F" /\ opMode # "Test"
     /\ delete_output_on_interrupt
     /\ Exists(fs, config.input))
    => ~Exists(fs, config.output)

\* C18: the termination handler runs in file-to-file mode only (in the
\* stdout modes a termination signal ends the process by default), the
\* memory-fault handler runs in every mode, and in the stdout modes and in
\* test mode no step that ends the process removes a file.
C18_CleanupOnlyFileToFile ==
    /\ [](hist.exitCause = "sigterm" => srcMode = "F2F")
    /\ [](hist.exitCause = "killed" => srcMode # "F2F")
    /\ [][(pc' \in {"exited", "killed"} /\ (srcMode # "F2F" \/ opMode = "Test"))
            => \A p \in DOMAIN fs : Exists(fs, p) => Exists(fs', p)]_vars
C18_Witness ==
    /\ pc = "exited" /\ hist.exitCause = "fatal"
    /\ srcMode = "F2O" /\ opMode = "Zip"
    /\ delete_output_on_interrupt
    /\ outputHandleJustInCase # "NULL"
    /\ Exists(fs, CStr(inName))

\* C19: in test mode a data-integrity error or an unexpected end of the
\* stream makes the file's test fail and never ends the process in the
\* error handler; a test run that ends in the job loop has taken every
\* file argument, and after such a failure it ends with exit code 2.
TestFailures == {"data_error", "unexpected_eof"}
C19_TestFailureNotFatal ==
    opMode = "Test" =>
       /\ (pc = "exited" /\ hist.exitFrom = "ts_err" /\ hist.exitCause = "fatal")
          => job.bzerr \notin {BZ_DATA_ERROR, BZ_UNEXPECTED_EOF}
       /\ (JobReturned /\ hist.outcome \in TestFailures) => ~all_ok
       /\ (pc = "exited" /\ hist.exitFrom = "main"
              /\ hist.exitCause \in {"return", "exit"})
          => /\ srcMode # "I2O" => argIdx = Len(args)
             /\ hist.outcomes \cap TestFailures # {}
                   => (hist.exitCause = "exit" /\ exitCode = 2)
C19_Witness ==
    /\ opMode = "Test"
    /\ pc = "exited" /\ hist.exitFrom = "main"
    /\ hist.ran = 2 /\ argIdx = 2
    /\ hist.outcomes = {"data_error"}
    /\ numFilesProcessed = 2
    /\ exitCode = 2

\* C20: a job whose input or output name is longer than FILE_NAME_LEN - 10
\* (1024) characters ends the process with an exit code of at least 1 while
\* the names are copied, before the job has opened, created or deleted any
\* file; no job runs under such a name, and every write into the name
\* buffers lands inside their FILE_NAME_LEN bytes.
LongestName == FILE_NAME_LEN - 10
CopyPcs == {"copy_in", "copy_out"}
C20_LongNamesRejected ==
    /\ []((pc = "exited" /\ MaxOf(Len(config.input), Len(config.output)) > LongestName)
            => /\ hist.exitFrom \in CopyPcs
               /\ exitCode >= 1
               /\ job = FreshJob /\ ~hist.created /\ ~hist.removed)
    /\ [](pc \notin {"main", "exited", "killed"} \cup CopyPcs
            => MaxOf(Len(config.input), Len(config.output)) <= LongestName)
    /\ [][(pc \in CopyPcs) => (fs' = fs)]_vars
    /\ [](/\ hist.topByte < FILE_NAME_LEN
          /\ Len(inName) <= FILE_NAME_LEN
          /\ Len(outName) <= FILE_NAME_LEN)
C20_Witness ==
    /\ pc = "exited" /\ hist.exitFrom = "copy_out"
    /\ Len(config.input) = LongestName
    /\ Len(config.output) > LongestName
    /\ CStr(inName) = config.input
    /\ hist.topByte = LongestName + 1
    /\ exitCode = 1

\* C21: in file-to-file decompress the output name is the input name with
\* the first suffix of (.bz2, .bz, .tbz2, .tbz) it ends with replaced by
\* its pair (nothing, nothing, .tar, .tar), or with .out appended when it
\* ends with none; and the name-could-not-be-guessed condition holds
\* exactly when the input ends with none of them.
MatchesSuffix(name, suf) ==
    Len(name) >= Len(suf) /\ \A i \in 1..Len(suf) : name[Len(name) - Len(suf) + i] = suf[i]
Stripped(name, suf) == SubSeq(name, 1, Len(name) - Len(suf))
DOT_TAR == <<".", "t", "a", "r">>
ExpectedOutputName(name) ==
    CASE MatchesSuffix(name, <<".", "b", "z", "2">>) ->
            Stripped(name, <<".", "b", "z", "2">>)
      [] MatchesSuffix(name, <<".", "b", "z">>) ->
            Stripped(name, <<".", "b", "z">>)
      [] MatchesSuffix(name, <<".", "t", "b", "z", "2">>) ->
            Stripped(name, <<".", "t", "b", "z", "2">>) \o DOT_TAR
      [] MatchesSuffix(name, <<".", "t", "b", "z">>) ->
            Stripped(name, <<".", "t", "b", "z">>) \o DOT_TAR
      [] OTHER -> name \o <<".", "o", "u", "t">>
MatchesNoSuffix(name) ==
    \A suf \in {<<".", "b", "z", "2">>, <<".", "b", "z">>,
                 <<".", "t", "b", "z", "2">>, <<".", "t", "b", "z">>} :
       ~MatchesSuffix(name, suf)
C21_OutputNameGuessed ==
    (opMode = "Unzip" /\ srcMode = "F2F" /\ hist.ran > 0 /\ pc # "copy_in")
    => /\ config.output = ExpectedOutputName(config.input)
       /\ CannotGuess(config.output) <=> MatchesNoSuffix(config.input)

\* C22: the raw copy of a decompress job runs only with overwrite-force
\* set and after at least one member was decoded completely; bad magic on
\* the first member never starts it.
C22_RawCopyAfterFirstMember ==
    (opMode = "Unzip" /\ pc = "us_cat")
    => (config.force_overwrite /\ job.streamNo > 1)

\* C23: after a clean end of a member the decompress and test drivers go
\* to their successful close only when the codec reported no unused bytes
\* and the input is at its end, and open a session for the next member
\* otherwise; a job that succeeds without having met bad magic has
\* therefore read an input that consists of members only.
CleanEndPcs == {"us_unused", "ts_unused"}
C23_CloseOnlyAtEnd ==
    /\ [][(pc \in CleanEndPcs /\ pc' \in {"us_closeok", "ts_close"})
            => (bzReadGetUnused(job.bzf) = <<>> /\ myfeof(job.inStr))]_vars
    /\ [][(pc \in CleanEndPcs /\ pc' \in {"us_open", "ts_open"})
            => ~(bzReadGetUnused(job.bzf) = <<>> /\ myfeof(job.inStr))]_vars
    /\ [][(pc \in CleanEndPcs /\ pc' # pc)
            => pc' \in {"us_closeok", "ts_close", "us_open", "ts_open",
                        "exited", "killed"}]_vars
    /\ []((opMode # "Zip" /\ JobReturned /\ hist.outcome = "success"
              /\ hist.magic = 0)
            => \A i \in 1..Len(hist.input.data) : hist.input.data[i].k = "member")
C23_Witness ==
    /\ opMode = "Unzip" /\ JobReturned
    /\ hist.outcome = "success" /\ hist.magic = 0
    /\ Len(hist.input.data) = BufTokens
    /\ OutputData = DecodedMembers(hist.input.data)
    /\ OutputData # <<>>

\* C24: in decompress and test the read session of the first member is
\* opened with an empty seed, and the session of every later member is
\* opened with exactly the unused bytes the codec reported after the member
\* before it, in the same order.
ReadOpenPcs == {"us_open", "ts_open"}
C24_SeedIsUnused ==
    /\ [][(pc \in ReadOpenPcs /\ pc' \in {"us_read", "ts_read"})
            => /\ job'.bzf.buf = job.unused
               /\ job'.streamNo = job.streamNo + 1]_vars
    /\ [][(pc \in CleanEndPcs /\ pc' \in ReadOpenPcs)
            => job'.unused = bzReadGetUnused(job.bzf)]_vars
    /\ [][(pc \in ReadOpenPcs /\ pc' = pc) => job'.unused = job.unused]_vars
    /\ []((pc \in ReadOpenPcs /\ job.streamNo = 0) => job.unused = <<>>)
C24_Witness ==
    /\ pc \in {"us_read", "ts_read"}
    /\ job.streamNo = 2
    /\ job.unused # <<>>
    /\ job.bzf.buf = job.unused
    /\ ~job.bzf.mid

\* C25: while the process runs, the just-in-case handle is null in every
\* state in which the job's output handle has been closed, and the cleanup
\* path never closes a handle a second time.
C25_NoDoubleClose ==
    /\ (Running /\ job.outStr.st = "closed") => outputHandleJustInCase = "NULL"
    /\ job.outStr.st # "closed_twice"
C25_Witness ==
    /\ pc = "exited" /\ hist.exitCause = "sigterm"
    /\ hist.exitFrom = "cs_ret"
    /\ opMode = "Zip" /\ srcMode = "F2F"
    /\ delete_output_on_interrupt
    /\ job.outStr.st = "closed"
    /\ ~Exists(fs, config.output)

\* C26: in a file-to-file compress or decompress job, whenever the
\* deletable flag is true and the job's output handle is still open, the
\* just-in-case handle refers to that output.
C26_HandleRecordedBeforeFlag ==
    (/\ Running
     /\ srcMode = "F2F" /\ opMode # "Test"
     /\ delete_output_on_interrupt
     /\ job.outStr.st = "open")
    => outputHandleJustInCase = "outStr"


\* C27: the output of a file-to-file job is opened with exclusive-create.  A
\* job whose output path was created by another process between the existence
\* check and the open fails: it records exit code 1, leaves the deletable flag
\* false, has created nothing, and the foreign file is still there as the
\* other process wrote it; no later step of the program, cleanup included,
\* truncates, writes or removes a foreign file.
IsForeign(r) == r = RegularFile(<<Junk>>, RW, "foreign", 0, TRUE)
C27_ExclusiveCreate ==
    /\ []((hist.outcome = "fail_create") =>
            (/\ IsForeign(Lookup(fs, config.output))
             /\ ~hist.created
             /\ ~delete_output_on_interrupt
             /\ 1 \in hist.recorded /\ exitValue >= 1
             /\ job.outStr.st = "null"
             /\ (pc = "exited" /\ hist.exitCause \in {"return", "exit"}) =>
                   (exitCode >= 1 /\ (hist.ran = 1 => exitCode = 1))))
    /\ [][\A p \in DOMAIN fs :
              IsForeign(fs[p]) => (p \in DOMAIN fs' /\ IsForeign(fs'[p]))]_vars
C27_Witness ==
    /\ hist.outcome = "fail_create"
    /\ pc = "exited" /\ exitCode = 1
    /\ IsForeign(Lookup(fs, config.output))
    /\ Exists(fs, config.input)

\* C28: a job refused by a precondition (missing input, directory, non-regular
\* input without force, existing output without force, extra hard links
\* without force, terminal stdio) transfers nothing and opens no output, leaves
\* the deletable flag false, records exit code 1 and returns to the loop over
\* the file arguments; the refusal reported is a precondition that is violated,
\* and no precondition earlier in the list is violated with it.
Refusals ==
    <<"refused_noinput", "refused_dir", "refused_notregular",
      "refused_outexists", "refused_links", "refused_tty">>
RefusalSet == {Refusals[k] : k \in 1..Len(Refusals)}
RefusalRank(o) == CHOOSE k \in 1..Len(Refusals) : Refusals[k] = o
PreconditionPcs == {"c_pre", "u_pre", "t_pre", "c_open", "u_open", "t_open"}
\* Precondition k of the list is violated in file system f.
Violated(k, f) ==
    LET in == Lookup(f, config.input)
        checked == opMode # "Test" /\ srcMode = "F2F" /\ ~config.force_overwrite
    IN CASE k = 1 -> srcMode # "I2O" /\ in.kind = "absent"
         [] k = 2 -> srcMode # "I2O" /\ in.kind = "dir"
         [] k = 3 -> checked /\ in.kind \notin {"absent", "file"}
         [] k = 4 -> checked /\ Lookup(f, config.output).kind # "absent"
         [] k = 5 -> checked /\ in.nlink > 0
         [] OTHER -> "tty" \in {Lookup(f, STDIN_F).kind, Lookup(f, STDOUT_F).kind}
C28_RefusedJobDoesNothing ==
    /\ []((hist.outcome \in RefusalSet) =>
            (/\ pc \in {"main", "exited", "killed"}
             /\ Lookup(fs, OutputPath) = Lookup(hist.fsAtStart, OutputPath)
             /\ Lookup(fs, InputPath).kind = Lookup(hist.fsAtStart, InputPath).kind
             /\ ~hist.created /\ ~hist.removed /\ ~hist.perms /\ ~hist.times
             /\ job.outStr.st = "null" /\ job.inStr.st = "null"
             /\ job.bzf.st = "null"
             /\ ~delete_output_on_interrupt
             /\ 1 \in hist.recorded /\ exitValue >= 1
             /\ Violated(RefusalRank(hist.outcome), hist.fsAtStart)
             /\ \A j \in 1..(RefusalRank(hist.outcome) - 1) :
                    ~Violated(j, hist.fsAtStart)))
    /\ [][(pc \in PreconditionPcs /\ hist'.outcome \in RefusalSet) =>
              (pc' = "main" /\ fs' = fs /\ exitValue' >= 1)]_vars
C28_Witness ==
    /\ hist.outcome = "refused_outexists"
    /\ Violated(5, hist.fsAtStart)
    /\ hist.ran = 2 /\ hist.outcomes = {"refused_noinput", "refused_outexists"}
    /\ pc = "main"

\* C29: in compressStream the first status other than BZ_OK from the session's
\* open, write or close leads to the error handler at once; the handler writes
\* no further chunk, closes the session with abandon = 1 (nothing is
\* finalized in the output) and ends the process with a non-zero code; past
\* the close of the success path the session has been closed with abandon = 0.
CompressStreamPcs ==
    {"cs_open", "cs_loop", "cs_close", "cs_perm", "cs_null", "cs_fclose", "cs_ret"}
AfterClosePcs == {"cs_perm", "cs_null", "cs_fclose", "cs_ret", "c_post"}
C29_ErrorAbandonsSession ==
    /\ []((pc \in CompressStreamPcs) => job.bzerr = BZ_OK)
    /\ []((pc = "cs_err") => job.bzerr # BZ_OK)
    /\ []((pc \in AfterClosePcs) => (job.bzf.st = "closed" /\ job.bzerr = BZ_OK))
    /\ []((hist.exitFrom = "cs_err" /\ hist.exitCause = "fatal") =>
            (job.bzf.st \in {"abandoned", "null"} /\ exitCode > 0))
    /\ [][(pc = "cs_err") =>
              (/\ pc' \in {"exited", "killed"}
               /\ job'.bzf.wr = job.bzf.wr /\ job'.inStr.pos = job.inStr.pos
               /\ (hist'.exitCause = "fatal" /\ job.bzf.st = "open")
                     => job'.bzf.st = "abandoned"
               /\ Exists(fs', OutputPath)
                     => Lookup(fs', OutputPath).data = Lookup(fs, OutputPath).data)]_vars
C29_Witness ==
    /\ pc = "exited" /\ hist.exitFrom = "cs_err" /\ hist.exitCause = "fatal"
    /\ job.bzf.st = "abandoned" /\ job.bzf.wr # <<>>
    /\ job.bzerr = BZ_IO_ERROR /\ exitCode = 1

\* C30: once both names of a job have been copied, the NUL-terminated strings
\* held in inName and outName are exactly the job's input and output paths.
C30_NameBuffersHoldPaths ==
    (Running /\ hist.ran > 0 /\ pc \notin {"main", "copy_in", "copy_out"}) =>
        (CStr(inName) = config.input /\ CStr(outName) = config.output)

\* C31: the path buffers and the recorded output handle are written only while
\* the deletable flag is false, and whenever the flag is true (the termination
\* handler may stat and delete) no buffer update is under way and the buffers
\* hold the paths of the running job.
C31_CoherentSnapshot ==
    /\ [][(inName' # inName \/ outName' # outName
            \/ outputHandleJustInCase' # outputHandleJustInCase)
              => ~delete_output_on_interrupt]_vars
    /\ []((Running /\ delete_output_on_interrupt
              /\ srcMode = "F2F" /\ opMode # "Test") =>
            (/\ pc \notin {"copy_in", "copy_out"}
             /\ CStr(inName) = config.input
             /\ CStr(outName) = config.output))

\* C32: a job removes its input only once its output is completely written
\* and closed and the deletable flag is cleared; after the removal nothing
\* touches that output again while the job's paths are current; and no state
\* in which the job has returned or the process has ended has the input
\* removed by the program and the output missing or incomplete.
IsPrefix(a, b) == Len(a) <= Len(b) /\ SubSeq(b, 1, Len(a)) = a
OutputComplete ==
    /\ Exists(fs, config.output)
    /\ IF opMode = "Zip"
       THEN /\ Len(OutputData) = 1
            /\ OutputData[1].k = "member"
            /\ Decoded(OutputData[1].v) = hist.input.data
       ELSE IsPrefix(DecodedMembers(hist.input.data), OutputData)
C32_NoDataLoss ==
    /\ [][(hist'.removed /\ ~hist.removed) =>
              (/\ srcMode = "F2F" /\ opMode # "Test"
               /\ hist.created
               /\ hist.input.path = config.input
               /\ job.outStr.st = "closed"
               /\ ~delete_output_on_interrupt
               /\ OutputComplete)]_vars
    /\ [][hist.removed =>
              Lookup(fs', config.output) = Lookup(fs, config.output)]_vars
    /\ []((hist.removed /\ pc \in {"main", "exited", "killed"}) => OutputComplete)

\* C33: whenever the cleanup path runs with the deletable flag set, the path
\* it hands to stat is the current job's input path, the path it hands to
\* remove is the current job's output path, and the only file the step removes
\* is the output the current job created.
C33_CleanupRemovesOwnOutput ==
    [][(/\ hist.exitCause = "none"
        /\ hist'.exitCause \in {"sigterm", "fatal"}
        /\ CleanupEligible) =>
          (/\ CStr(inName) = config.input
           /\ CStr(outName) = config.output
           /\ \A p \in DOMAIN fs :
                 (Exists(fs, p) /\ ~Exists(fs', p)) =>
                     (p = config.output /\ hist.created))]_vars

\* C34: once a job has returned, or the process has ended on a path of one of
\* the stream drivers (normal end or fatal error), no codec session of the job
\* is still open; and a session is only ever closed from the open state.
C34_SessionsClosedOnce ==
    /\ []((pc = "main" \/ (pc = "exited"
                              /\ hist.exitCause \in {"return", "exit", "fatal"}))
            => job.bzf.st # "open")
    /\ [][(job'.bzf.st \in {"closed", "abandoned"} /\ job'.bzf.st # job.bzf.st)
              => job.bzf.st = "open"]_vars

\* C35: a decompress or test job on a finite input always comes to an end: it
\* returns to the job loop or the process ends.  CloseOk and ErrHandler never
\* lead back into the member loop, the raw copy is entered at most once per
\* job, and every round of the member loop consumes input.
DecodeJobPcs ==
    {"u_pre", "u_meta", "u_open", "u_open_out", "u_arm", "us_open", "us_read",
     "us_unused", "us_closeok", "us_fclose", "us_trycat", "us_cat", "us_err",
     "u_post", "t_pre", "t_open", "t_null", "ts_open", "ts_read", "ts_unused",
     "ts_close", "ts_err"}
MemberLoopPcs == {"us_open", "us_read", "us_unused", "ts_open", "ts_read", "ts_unused"}
Remaining(j) == Len(j.inStr.data) - j.inStr.pos + Len(j.bzf.buf)
C35_DecodeJobTerminates ==
    /\ (pc \in DecodeJobPcs) ~> (pc \in {"main", "exited", "killed"})
    /\ [][(pc \in {"us_closeok", "us_fclose", "us_err", "ts_close", "ts_err"})
              => pc' \notin MemberLoopPcs \cup {"us_trycat", "us_cat"}]_vars
    /\ [][(pc' = "us_cat" /\ pc # "us_cat")
              => (pc = "us_trycat" /\ hist.magic > 0 /\ ~hist.rewound)]_vars
    /\ [][(pc \in {"us_unused", "ts_unused"} /\ pc' \in {"us_open", "ts_open"})
              => Remaining(job') > 0]_vars
    /\ [][(pc \in {"us_open", "ts_open"} /\ pc' \in {"us_read", "ts_read"})
              => job'.streamNo = job.streamNo + 1]_vars
C35_Witness ==
    /\ pc = "main" /\ hist.outcome = "success"
    /\ opMode = "Unzip" /\ hist.magic >= 2
    /\ hist.rewound

\* C36: in test mode the deletable flag is false in every state, no output
\* handle is opened, and no step of the program, whether a job step, the
\* termination handler or a fatal error, creates, modifies or deletes a file.
SameFile(a, b) ==
    /\ a.kind = b.kind /\ a.mode = b.mode /\ a.mtime = b.mtime
    /\ a.nlink = b.nlink
    /\ a.bound => (b.bound /\ b.data = a.data)
C36_TestModeTouchesNothing ==
    /\ []((opMode = "Test") =>
            (/\ ~delete_output_on_interrupt
             /\ job.outStr.st = "null"
             /\ ~hist.created /\ ~hist.removed /\ ~hist.perms /\ ~hist.times))
    /\ [][(opMode = "Test") =>
              (/\ \A p \in DOMAIN fs : p \in DOMAIN fs' /\ SameFile(fs[p], fs'[p])
               /\ (DOMAIN fs' # DOMAIN fs) => (pc = "t_pre" /\ pc' = pc /\ job' = job)
               /\ (pc' \in {"exited", "killed"}) => fs' = fs)]_vars
C36_Witness ==
    /\ opMode = "Test" /\ srcMode = "F2F"
    /\ pc = "exited" /\ hist.exitCause = "sigterm"
    /\ hist.exitFrom = "ts_read" /\ job.inStr.pos > 0
    /\ Exists(fs, config.input)

\* C37: the deletable flag is false when a job starts and whenever compress,
\* uncompress or testf has returned, whatever the way the job ended, so a
\* signal that arrives between two jobs removes nothing.
BetweenJobsPcs == {"main", "copy_in", "copy_out", "c_pre", "u_pre", "t_pre"}
C37_FlagFalseBetweenJobs ==
    /\ []((pc \in BetweenJobsPcs) => ~delete_output_on_interrupt)
    /\ [][(pc' = "main" /\ pc # "main") => ~delete_output_on_interrupt']_vars
    /\ [][(pc \in BetweenJobsPcs /\ pc' \in {"exited", "killed"}) => fs' = fs]_vars
C37_Witness ==
    /\ pc = "exited" /\ hist.exitCause = "sigterm" /\ hist.exitFrom = "main"
    /\ hist.outcome = "success" /\ hist.created
    /\ Exists(fs, config.output) /\ Exists(fs, CStr(inName))
    /\ ~delete_output_on_interrupt

\* C38: the number of files processed is never below 0 nor above the number
\* of file names, it is the number of file arguments whose job has been
\* started, and the count cleanup reports as not processed yet (lines 806-807)
\* is the number of file arguments whose job has not been started.
NotProcessedYet == numFileNames - numFilesProcessed
StartedArgs == {k \in 1..Len(args) : k <= hist.ran}
C38_ProcessedCount ==
    /\ 0 <= numFilesProcessed /\ numFilesProcessed <= numFileNames
    /\ srcMode # "I2O" => numFilesProcessed = Cardinality(StartedArgs)
    /\ NotProcessedYet = Cardinality((1..Len(args)) \ StartedArgs)
    /\ srcMode # "I2O" => (argIdx = numFilesProcessed /\ hist.ran <= Len(args))
C38_Witness ==
    /\ pc = "exited" /\ hist.exitCause \in {"sigterm", "fatal"}
    /\ numFileNames = 2 /\ numFilesProcessed = 1
    /\ NotProcessedYet = 1
    /\ hist.exitFrom \notin {"main", "copy_in", "copy_out"}
====
